---- MODULE Spec2Model ----
(***************************************************************************)
(* Model of the automatic-differentiation / operator-algebra core of       *)
(* porepy: the DOF registry (DofManager), Variable / MergedVariable leaves *)
(* created by the EquationManager and their evaluation, the subdomain and  *)
(* mortar projection matrices, the parsing of discretization matrices, the *)
(* forward-mode AD pairs (Ad_array) and their arithmetic.  The expected    *)
(* values are the ones the unit tests in src/tests/unit/test_ad.py build   *)
(* by hand.  The last part models generateCoarseGrid of src/coarsening.py. *)
(*                                                                         *)
(* Vectors are sequences (position k holds the entry with 0-based index    *)
(* k-1); index arrays hold 0-based indices as numpy does.  Sparse matrices *)
(* are in coordinate form: a shape and the set of nonzero <<row, col, val>>*)
(* entries, 0-based, without explicit zeros or duplicates, so two matrices *)
(* are equal exactly when _compare_matrices accepts them.                  *)
(***************************************************************************)
EXTENDS Integers, Sequences, FiniteSets, TLC

VARIABLES
    blocks,          \* DOF registry: the registered blocks, in registration order
    iterate_stored,  \* whether data[pp.STATE][pp.ITERATE] holds the variables
    tree,            \* the operator tree last built by the EquationManager
    call,            \* the last operation on registry / manager and what it returned
    proj,            \* the last projection operation and the matrix it returned
    ad,              \* the Ad_array objects a, b, c, their buffers, the last operation on them
    coarse           \* the last call of generateCoarseGrid and what it returned

regVars == <<blocks, iterate_stored, tree, call>>
projVars == <<proj>>
adVars == <<ad>>
coarseVars == <<coarse>>
vars == <<blocks, iterate_stored, tree, call, proj, ad, coarse>>

----------------------------------------------------------------------------
(* Generic helpers: vectors, index arrays, coordinate-form matrices.       *)

RECURSIVE hstack(_)
\* np.hstack of a sequence of vectors
hstack(vs) == IF vs = <<>> THEN <<>> ELSE Head(vs) \o hstack(Tail(vs))

\* np.arange(lo, hi)
arange(lo, hi) == [k \in 1..(IF hi > lo THEN hi - lo ELSE 0) |-> lo + k - 1]

\* x[inds] for an index array inds
take(x, inds) == [k \in 1..Len(inds) |-> x[inds[k] + 1]]

\* x[inds] = vals, the rest of x kept
put(x, inds, vals) ==
    [p \in 1..Len(x) |->
        IF \E k \in 1..Len(inds) : inds[k] + 1 = p
        THEN vals[CHOOSE k \in 1..Len(inds) : inds[k] + 1 = p]
        ELSE x[p]]

zeros(n) == [k \in 1..n |-> 0]

scale(c, x) == [k \in 1..Len(x) |-> c * x[k]]

coo_matrix(nz, nrow, ncol) == [shape |-> <<nrow, ncol>>, nz |-> nz]

EmptyMatrix == coo_matrix({}, 0, 0)

transpose(A) ==
    coo_matrix({<<t[2], t[1], t[3]>> : t \in A.nz}, A.shape[2], A.shape[1])

\* scipy.sparse.vstack of two matrices with the same number of columns
vstack2(A, B) ==
    coo_matrix(A.nz \cup {<<t[1] + A.shape[1], t[2], t[3]>> : t \in B.nz},
               A.shape[1] + B.shape[1], B.shape[2])

----------------------------------------------------------------------------
(* Grids, interfaces and the variables declared on them.                   *)

\* g0 is the grid of highest dimension, g1 a fracture, g2 a point (a grid
\* without faces); an interface has as many cells on one side as on the other
Grids == {"g0", "g1", "g2"}
Interfaces == {"intf", "intf2"}

\* number of cells of each grid / interface (dofs live on cells)
num_cells(g) ==
    CASE g = "g0" -> 2 [] g = "g1" -> 1 [] g = "g2" -> 1
      [] g = "intf" -> 2 [] g = "intf2" -> 4

num_faces(g) == CASE g = "g0" -> 4 [] g = "g1" -> 2 [] OTHER -> 0

\* the (grid-or-interface, variable-name) pairs that may be declared; a
\* caller may refer to any of them, registered so far or not
Declared == {<<"g0", "foo">>, <<"g0", "bar">>, <<"intf", "foo">>}
References == Declared

\* dofs per cell a declaration may ask for
MaxDofsPerCell == 2
DofChoices == 1..MaxDofsPerCell

\* The state store of a grid: data[pp.STATE][var] and
\* data[pp.STATE][pp.ITERATE][var], arrays of the block's size.  The tests
\* fill them with random numbers; here every entry is distinct.
PairCode(g, v) ==
    CASE <<g, v>> = <<"g0", "foo">> -> 100
      [] <<g, v>> = <<"g0", "bar">> -> 200
      [] <<g, v>> = <<"intf", "foo">> -> 300
      [] OTHER -> 400

val_state(g, v, n) == [k \in 1..n |-> PairCode(g, v) + k]
val_iterate(g, v, n) == [k \in 1..n |-> PairCode(g, v) + 50 + k]

----------------------------------------------------------------------------
(* DOF registry.                                                           *)

\* total_dofs(): the length of the global vector
total_dofs(bs) == IF bs = <<>> THEN 0 ELSE bs[Len(bs)].stop

is_registered(bs, g, v) == \E k \in 1..Len(bs) : bs[k].g = g /\ bs[k].v = v

block_index(bs, g, v) == CHOOSE k \in 1..Len(bs) : bs[k].g = g /\ bs[k].v = v

\* a running offset that leaves a column free before each block
next_offset_gap(bs) == total_dofs(bs) + 1

\* the running offset: the column at which the next block starts
next_offset(bs) == total_dofs(bs)

\* register(grid_or_interface, variable_name, dofs_per_entity): the registry
\* with a block of dofs_per_entity * entity_count columns at the running offset
register(bs, g, v, d) ==
    Append(bs, [g |-> g, v |-> v, dofs |-> d,
                start |-> next_offset(bs),
                stop |-> next_offset(bs) + d * num_cells(g)])

\* block_of(grid_or_interface, variable_name): the column index array
\* (DofManager.grid_and_variable_to_dofs in the tests)
block_of(bs, g, v) ==
    LET b == bs[block_index(bs, g, v)] IN arange(b.start, b.stop)

----------------------------------------------------------------------------
(* What an operation returns: an AD pair, a plain array, a tree, or an     *)
(* error.  One record shape for all, so that results compare.              *)

Ad_array(val, jac) == [kind |-> "Ad_array", val |-> val, jac |-> jac]
ndarray(val) == [kind |-> "ndarray", val |-> val, jac |-> EmptyMatrix]
Raised(kind) == [kind |-> kind, val |-> <<>>, jac |-> EmptyMatrix]
Returned(kind) == [kind |-> kind, val |-> <<>>, jac |-> EmptyMatrix]

ErrorKinds == {"LookupError", "ValueError", "RegistryStateError"}
is_error(r) == r.kind \in ErrorKinds

----------------------------------------------------------------------------
(* Operator tree leaves and the equation / variable manager.               *)

NoTree == [kind |-> "None", sub_vars |-> <<>>, prev_time |-> FALSE,
           prev_iter |-> FALSE, stale |-> FALSE]

\* a Variable leaf, or a MergedVariable over the ordered sub_vars, bound to
\* the registry instance that is current when it is built
Leaf(kind, gv) == [kind |-> kind, sub_vars |-> gv, prev_time |-> FALSE,
                   prev_iter |-> FALSE, stale |-> FALSE]

\* a manager that hands out a leaf without looking the pair up
variable_unchecked(bs, g, v) ==
    [err |-> "", tree |-> Leaf("Variable", <<<<g, v>>>>)]

\* EquationManager.variable(grid, name)
variable(bs, g, v) ==
    IF is_registered(bs, g, v)
    THEN [err |-> "", tree |-> Leaf("Variable", <<<<g, v>>>>)]
    ELSE [err |-> "LookupError", tree |-> NoTree]

\* EquationManager.merge_variables(list of (grid-or-interface, name)): the
\* sub-variables keep the order of the list
merge_variables(bs, gv) ==
    IF \E k \in 1..Len(gv) : ~is_registered(bs, gv[k][1], gv[k][2])
    THEN [err |-> "LookupError", tree |-> NoTree]
    ELSE IF \E k \in 1..Len(gv) : gv[k][2] # gv[1][2]
    THEN [err |-> "ValueError", tree |-> NoTree]
    ELSE [err |-> "", tree |-> Leaf("MergedVariable", gv)]

\* Variable.previous_timestep() / previous_iteration(): the same leaf, frozen
previous_timestep(t) == [t EXCEPT !.prev_time = TRUE]
previous_iteration(t) == [t EXCEPT !.prev_iter = TRUE]

\* a structural change that leaves the trees as they are
invalidate_never(t) == t

\* a structural change of the registry invalidates the trees built so far
invalidate(t) == IF t.kind = "None" THEN t ELSE [t EXCEPT !.stale = TRUE]

----------------------------------------------------------------------------
(* Evaluation of a leaf against the registry and a global state vector.    *)

\* the stored arrays of every block glued together in registry order
RECURSIVE stored_state(_)
stored_state(bs) ==
    IF bs = <<>> THEN <<>>
    ELSE LET b == bs[Len(bs)]
         IN stored_state(SubSeq(bs, 1, Len(bs) - 1))
                \o val_state(b.g, b.v, b.stop - b.start)

\* the current iterate of every block in registry order; a variable without
\* a stored iterate contributes its stored state
RECURSIVE stored_iterate(_, _)
stored_iterate(bs, has_iter) ==
    IF bs = <<>> THEN <<>>
    ELSE LET b == bs[Len(bs)]
         IN stored_iterate(SubSeq(bs, 1, Len(bs) - 1), has_iter)
                \o (IF has_iter THEN val_iterate(b.g, b.v, b.stop - b.start)
                    ELSE val_state(b.g, b.v, b.stop - b.start))

\* a selection matrix with the block's own columns only
selection_matrix_local(bs, g, v) ==
    LET b == bs[block_index(bs, g, v)]
    IN coo_matrix({<<i, i, 1>> : i \in 0..(b.stop - b.start - 1)},
                  b.stop - b.start, b.stop - b.start)

\* the identity-like selection matrix of a block: one row per dof of the
\* block, one column per dof of the registry
selection_matrix(bs, g, v) ==
    LET b == bs[block_index(bs, g, v)]
    IN coo_matrix({<<i, b.start + i, 1>> : i \in 0..(b.stop - b.start - 1)},
                  b.stop - b.start, total_dofs(bs))

\* a current-iterate Variable: the slice of x at its block, and the selection
eval_variable(bs, g, v, x) ==
    [val |-> take(x, block_of(bs, g, v)), jac |-> selection_matrix(bs, g, v)]

\* the sub-variables one after the other, in the order they were declared
RECURSIVE eval_sub_vars(_, _, _)
eval_sub_vars(bs, gv, x) ==
    IF Len(gv) = 1 THEN eval_variable(bs, gv[1][1], gv[1][2], x)
    ELSE LET n == Len(gv)
             first == eval_sub_vars(bs, SubSeq(gv, 1, n - 1), x)
             last == eval_variable(bs, gv[n][1], gv[n][2], x)
         IN [val |-> first.val \o last.val, jac |-> vstack2(first.jac, last.jac)]

NoVector == <<>>

\* evaluate(tree, state_vector): x = NoVector stands for no state vector
evaluate(bs, has_iter, t, x) ==
    IF t.stale THEN Raised("RegistryStateError")
    ELSE IF \E k \in 1..Len(t.sub_vars) :
                ~is_registered(bs, t.sub_vars[k][1], t.sub_vars[k][2])
    THEN Raised("LookupError")
    ELSE IF t.prev_time
    THEN ndarray(eval_sub_vars(bs, t.sub_vars, stored_state(bs)).val)
    ELSE IF t.prev_iter
    THEN ndarray(eval_sub_vars(bs, t.sub_vars, stored_iterate(bs, has_iter)).val)
    ELSE LET state == IF x = NoVector THEN stored_iterate(bs, has_iter) ELSE x
             r == eval_sub_vars(bs, t.sub_vars, state)
         IN Ad_array(r.val, r.jac)

\* an evaluation that keeps the state vector it was given as the stored
\* iterate of the grids
after_evaluate_keeps_x(bs, has_iter, t, x) ==
    [blocks |-> bs, iterate_stored |-> has_iter \/ x # "None", tree |-> t]

\* the registry, the stored arrays and the tree after evaluate(tree, x): the
\* evaluation reads them and writes none of them
after_evaluate(bs, has_iter, t, x) ==
    [blocks |-> bs, iterate_stored |-> has_iter, tree |-> t]

----------------------------------------------------------------------------
(* The vectors the tests assemble by hand (test_ad_variable_wrappers).     *)

\* the loop over dof_manager.block_dof writing map[g] at the block's indices
RECURSIVE assemble(_, _, _, _)
assemble(bs, k, which, vec) ==
    IF k > Len(bs) THEN vec
    ELSE LET b == bs[k]
             inds == block_of(bs, b.g, b.v)
             vals == CASE which = "state" -> val_state(b.g, b.v, Len(inds))
                       [] which = "iterate" -> val_iterate(b.g, b.v, Len(inds))
                       [] which = "double" ->
                              scale(2, val_iterate(b.g, b.v, Len(inds)))
         IN assemble(bs, k + 1, which, put(vec, inds, vals))

\* the stored states taken from the iterate map
true_state_from_iterate(bs) == assemble(bs, 1, "iterate", zeros(total_dofs(bs)))

true_state(bs) == assemble(bs, 1, "state", zeros(total_dofs(bs)))

\* the iterate with the last block left at zero
true_iterate_short(bs) ==
    assemble(SubSeq(bs, 1, Len(bs) - 1), 1, "iterate", zeros(total_dofs(bs)))

true_iterate(bs) == assemble(bs, 1, "iterate", zeros(total_dofs(bs)))
double_iterate(bs) == assemble(bs, 1, "double", zeros(total_dofs(bs)))

\* the dofs of the listed pairs with the list read backwards
inds_var_reversed(bs, gv) ==
    hstack([k \in 1..Len(gv) |->
               block_of(bs, gv[Len(gv) + 1 - k][1], gv[Len(gv) + 1 - k][2])])

\* inds_var: the dofs of the listed (grid, variable) pairs, one after the other
inds_var(bs, gv) ==
    hstack([k \in 1..Len(gv) |-> block_of(bs, gv[k][1], gv[k][2])])

\* the state vectors an evaluation is given, by name
StateVectorNames(has_iter) ==
    {"None", "true_state"}
        \cup (IF has_iter THEN {"true_iterate", "double_iterate"} ELSE {})

state_vector(bs, name) ==
    CASE name = "None" -> NoVector
      [] name = "true_state" -> true_state(bs)
      [] name = "true_iterate" -> true_iterate(bs)
      [] name = "double_iterate" -> double_iterate(bs)

----------------------------------------------------------------------------
(* The operations on the registry and the manager.                         *)

\* longest list of (grid, name) pairs given to merge_variables
MaxMerge == 2

\* ordered lists of distinct pairs
MergeLists ==
    {gv \in UNION {[1..n -> References] : n \in 2..MaxMerge} :
        \A i, j \in 1..Len(gv) : i # j => gv[i] # gv[j]}

Called(op, gv, d, x, ret) ==
    [op |-> op, gv |-> gv, dofs |-> d, x |-> x, ret |-> ret]

NoCall == Called("none", <<>>, 0, "None", Returned("None"))

NoProj == [op |-> "none", subdomains |-> <<>>, interfaces |-> <<>>, nd |-> 0,
           arg |-> <<>>, mat |-> EmptyMatrix]

\* the names that hold Ad_array objects in the tests
AdNames == {"a", "b", "c"}

\* the operand of an operation that is not self: nothing, another Ad_array
\* (by name), a plain scalar, a plain vector or a constant matrix
Operand(kind, name, val, mat) ==
    [kind |-> kind, name |-> name, val |-> val, mat |-> mat]

NoOperand == Operand("none", "none", <<>>, <<>>)

\* what a name holds: value and Jacobian (both empty when unbound)
Pair(val, jac) == [val |-> val, jac |-> jac]

NoPair == Pair(<<>>, <<>>)

\* no Ad_array built yet: the names a, b, c are unbound, no object and no
\* buffer is allocated, no operation has been applied
NoAd ==
    [names |-> [n \in AdNames |-> 0],
     objs  |-> [o \in 1..3 |-> [v |-> 0, j |-> 0]],
     vbuf  |-> [k \in 1..3 |-> <<>>],
     jbuf  |-> [k \in 1..3 |-> <<>>],
     last  |-> [op |-> "none", self |-> "none", other |-> NoOperand,
                pre |-> [n \in AdNames |-> NoPair], ret |-> "None"],
     count |-> 0]

\* generateCoarseGrid has not been called
NoCoarse == [op |-> "none", g |-> "none", subdiv |-> <<>>, ret |-> "None"]

InitReg ==
    /\ blocks = <<>>
    /\ iterate_stored \in BOOLEAN
    /\ tree = NoTree
    /\ call = NoCall

Init ==
    /\ InitReg
    /\ proj = NoProj
    /\ ad = NoAd
    /\ coarse = NoCoarse

\* a variable is declared on a grid or interface and gets its block
Register(g, v, d) ==
    /\ ~is_registered(blocks, g, v)
    /\ blocks' = register(blocks, g, v, d)
    /\ tree' = invalidate(tree)
    /\ call' = Called("register", <<<<g, v>>>>, d, "None", Returned("None"))
    /\ UNCHANGED <<iterate_stored, proj, ad, coarse>>

\* the registry is built anew, to be filled with another set of variables
Rebuild ==
    /\ blocks # <<>>
    /\ blocks' = <<>>
    /\ tree' = invalidate(tree)
    /\ call' = Called("rebuild", <<>>, 0, "None", Returned("None"))
    /\ UNCHANGED <<iterate_stored, proj, ad, coarse>>

BlockOf(g, v) ==
    /\ call' = Called("block_of", <<<<g, v>>>>, 0, "None",
                      IF is_registered(blocks, g, v)
                      THEN ndarray(block_of(blocks, g, v))
                      ELSE Raised("LookupError"))
    /\ UNCHANGED <<blocks, iterate_stored, tree, proj, ad, coarse>>

MakeVariable(g, v) ==
    LET r == variable(blocks, g, v)
    IN /\ tree' = IF r.err = "" THEN r.tree ELSE tree
       /\ call' = Called("variable", <<<<g, v>>>>, 0, "None",
                         IF r.err = "" THEN Returned(r.tree.kind)
                         ELSE Raised(r.err))
       /\ UNCHANGED <<blocks, iterate_stored, proj, ad, coarse>>

MergeVariables(gv) ==
    LET r == merge_variables(blocks, gv)
    IN /\ tree' = IF r.err = "" THEN r.tree ELSE tree
       /\ call' = Called("merge_variables", gv, 0, "None",
                         IF r.err = "" THEN Returned(r.tree.kind)
                         ELSE Raised(r.err))
       /\ UNCHANGED <<blocks, iterate_stored, proj, ad, coarse>>

PreviousTimestep ==
    /\ tree.kind # "None"
    /\ ~tree.prev_time /\ ~tree.prev_iter
    /\ tree' = previous_timestep(tree)
    /\ call' = Called("previous_timestep", tree.sub_vars, 0, "None",
                      Returned(tree.kind))
    /\ UNCHANGED <<blocks, iterate_stored, proj, ad, coarse>>

PreviousIteration ==
    /\ tree.kind # "None"
    /\ ~tree.prev_time /\ ~tree.prev_iter
    /\ tree' = previous_iteration(tree)
    /\ call' = Called("previous_iteration", tree.sub_vars, 0, "None",
                      Returned(tree.kind))
    /\ UNCHANGED <<blocks, iterate_stored, proj, ad, coarse>>

\* tree.evaluate(dof_manager, x): the result, and what the evaluation leaves
\* of the registry, the stored arrays and the tree
Evaluate(x) ==
    LET after == after_evaluate(blocks, iterate_stored, tree, x)
    IN /\ tree.kind # "None"
       /\ call' = Called("evaluate", tree.sub_vars, 0, x,
                         evaluate(blocks, iterate_stored, tree,
                                  state_vector(blocks, x)))
       /\ blocks' = after.blocks
       /\ iterate_stored' = after.iterate_stored
       /\ tree' = after.tree
       /\ UNCHANGED <<proj, ad, coarse>>

Next ==
    \/ \E p \in Declared, d \in DofChoices : Register(p[1], p[2], d)
    \/ Rebuild
    \/ \E p \in References : BlockOf(p[1], p[2])
    \/ \E p \in References : MakeVariable(p[1], p[2])
    \/ \E gv \in MergeLists : MergeVariables(gv)
    \/ PreviousTimestep
    \/ PreviousIteration
    \/ \E x \in StateVectorNames(iterate_stored) : Evaluate(x)

Spec == Init /\ [][Next]_vars

----------------------------------------------------------------------------
(* Properties of the DOF registry and of the evaluation of leaves.         *)

\* entry (i, j) of a matrix in coordinate form
At(A, i, j) ==
    IF \E t \in A.nz : t[1] = i /\ t[2] = j
    THEN (CHOOSE t \in A.nz : t[1] = i /\ t[2] = j)[3]
    ELSE 0

Columns(bs, k) == {bs[k].start + i : i \in 0..(bs[k].stop - bs[k].start - 1)}

\* the tree can be evaluated: it was built against the registry as it is now
Fresh == tree.kind # "None" /\ ~tree.stale

Evaluated == call.op = "evaluate"

\* C1: after any sequence of register calls the blocks are pairwise disjoint
\* contiguous ranges that cover exactly 0..total_dofs()-1; each block has
\* dofs_per_entity * entity_count columns and starts where the block
\* registered before it stops (the first one at 0).
C1_BlocksPartitionGlobalVector ==
    /\ \A k \in 1..Len(blocks) :
          /\ blocks[k].stop - blocks[k].start
                 = blocks[k].dofs * num_cells(blocks[k].g)
          /\ blocks[k].start = IF k = 1 THEN 0 ELSE blocks[k - 1].stop
          /\ Cardinality(Columns(blocks, k)) = blocks[k].stop - blocks[k].start
    /\ \A i, j \in 1..Len(blocks) :
          i # j => Columns(blocks, i) \cap Columns(blocks, j) = {}
    /\ UNION {Columns(blocks, k) : k \in 1..Len(blocks)}
           = 0..(total_dofs(blocks) - 1)

C1_Witness ==
    /\ call.op = "register"
    /\ Len(blocks) = 3
    /\ blocks[1].dofs = 2 /\ blocks[2].dofs = 1 /\ blocks[3].dofs = 2

\* C2: evaluating a registered current-iterate Variable on a state vector x
\* gives an AD pair whose value is x sliced at the variable's block and whose
\* Jacobian has (block size) rows and total_dofs() columns, with a 1 in row i
\* at the i-th column of the block and 0 elsewhere.
C2_VariableIsSliceAndSelection ==
    (Evaluated /\ Fresh /\ tree.kind = "Variable" /\ call.x # "None"
        /\ ~tree.prev_time /\ ~tree.prev_iter)
    => LET g == tree.sub_vars[1][1]
           v == tree.sub_vars[1][2]
           b == blocks[block_index(blocks, g, v)]
           n == b.stop - b.start
           x == state_vector(blocks, call.x)
       IN /\ call.ret.kind = "Ad_array"
          /\ Len(call.ret.val) = n
          /\ \A i \in 0..(n - 1) : call.ret.val[i + 1] = x[b.start + i + 1]
          /\ call.ret.jac.shape = <<n, total_dofs(blocks)>>
          /\ \A i \in 0..(n - 1), j \in 0..(total_dofs(blocks) - 1) :
                At(call.ret.jac, i, j) = IF j = b.start + i THEN 1 ELSE 0
          /\ Cardinality(call.ret.jac.nz) = n

C2_Witness ==
    /\ Evaluated /\ Fresh /\ tree.kind = "Variable"
    /\ ~tree.prev_time /\ ~tree.prev_iter
    /\ call.x = "double_iterate"
    /\ Len(blocks) = 3
    /\ tree.sub_vars[1] = <<blocks[2].g, blocks[2].v>>
    /\ call.ret.kind = "Ad_array"

\* C3: evaluating a MergedVariable gives the values of its sub-variables one
\* after the other in the order of the list given to merge_variables
\* (x[inds_var] in the tests), and a Jacobian with total_dofs() columns
\* however many grids the variable spans.
C3_MergedIsConcatenationInListOrder ==
    (Evaluated /\ Fresh /\ tree.kind = "MergedVariable"
        /\ ~tree.prev_time /\ ~tree.prev_iter)
    => LET x == IF call.x = "None"
                THEN (IF iterate_stored THEN true_iterate(blocks)
                      ELSE true_state(blocks))
                ELSE state_vector(blocks, call.x)
       IN /\ call.ret.kind = "Ad_array"
          /\ call.ret.val = take(x, inds_var(blocks, tree.sub_vars))
          /\ call.ret.jac.shape[2] = total_dofs(blocks)
          /\ call.ret.jac.shape[1] = Len(call.ret.val)

C3_Witness ==
    /\ Evaluated /\ Fresh /\ tree.kind = "MergedVariable"
    /\ ~tree.prev_time /\ ~tree.prev_iter
    /\ call.x = "true_iterate"
    /\ Len(blocks) = 3
    /\ tree.sub_vars = <<<<blocks[3].g, blocks[3].v>>, <<blocks[1].g, blocks[1].v>>>>
    /\ call.ret.kind = "Ad_array"
    /\ call.ret.jac.shape[2] > Len(call.ret.val)

\* C4: evaluating a previous-timestep or previous-iteration leaf returns a
\* plain array without a Jacobian: the separately stored array sliced to the
\* blocks of the leaf, whatever state vector is given, none included.
C4_PreviousIsStoredPlainArray ==
    (Evaluated /\ Fresh /\ (tree.prev_time \/ tree.prev_iter))
    => LET stored == IF tree.prev_time \/ ~iterate_stored
                     THEN true_state(blocks)
                     ELSE true_iterate(blocks)
       IN /\ call.ret.kind = "ndarray"
          /\ call.ret.jac = EmptyMatrix
          /\ call.ret.val = take(stored, inds_var(blocks, tree.sub_vars))

C4_Witness ==
    /\ Evaluated /\ Fresh /\ tree.prev_time
    /\ tree.kind = "MergedVariable"
    /\ call.x = "double_iterate"
    /\ call.ret.kind = "ndarray"
    /\ Len(call.ret.val) > 2

\* C5: evaluating a leaf with no state vector gives what evaluating it with
\* the vector assembled from the stored current iterates, block by block in
\* registry order, gives (the stored states where no iterate is stored).
C5_NoVectorIsStoredIterate ==
    (Evaluated /\ Fresh /\ call.x = "None")
    => call.ret = evaluate(blocks, iterate_stored, tree,
                           IF iterate_stored THEN true_iterate(blocks)
                           ELSE true_state(blocks))

C5_Witness ==
    /\ Evaluated /\ Fresh /\ call.x = "None"
    /\ iterate_stored
    /\ ~tree.prev_time /\ ~tree.prev_iter
    /\ Len(blocks) = 3
    /\ call.ret.kind = "Ad_array"
    /\ call.ret.val = take(true_iterate(blocks), inds_var(blocks, tree.sub_vars))

\* C6: once the registry has changed (a variable added, or the registry built
\* anew) a tree built before the change stays invalid until a new tree
\* replaces it, and evaluating it fails with RegistryStateError instead of
\* returning a value laid out by the new registry.
C6_Step ==
    /\ (blocks' # blocks /\ tree.kind # "None") => (tree'.stale /\ tree'.kind # "None")
    /\ (tree.stale /\ ~tree'.stale)
          => (call'.op \in {"variable", "merge_variables"} /\ ~is_error(call'.ret))
    /\ (call'.op = "evaluate" /\ call' # call /\ tree.stale)
          => call'.ret = Raised("RegistryStateError")

C6_StaleTreeFails ==
    /\ [](Evaluated /\ tree.stale => call.ret.kind = "RegistryStateError")
    /\ [][C6_Step]_vars

C6_Witness ==
    /\ Evaluated /\ tree.stale
    /\ \A k \in 1..Len(tree.sub_vars) :
          is_registered(blocks, tree.sub_vars[k][1], tree.sub_vars[k][2])
    /\ blocks # <<>>
    /\ call.ret.kind = "RegistryStateError"

\* C7: a reference to an unregistered (grid-or-interface, name) pair fails:
\* block_of, variable and merge_variables raise a lookup error, evaluating a
\* tree with such a leaf fails, and the failed call leaves the registry as
\* it was.
C7_Step ==
    LET unregistered(gv) ==
            \E k \in 1..Len(gv) : ~is_registered(blocks, gv[k][1], gv[k][2])
    IN /\ (call'.op \in {"block_of", "variable", "merge_variables"}
             /\ call' # call /\ unregistered(call'.gv))
          => (call'.ret.kind = "LookupError" /\ blocks' = blocks /\ tree' = tree)
       /\ (call'.op = "evaluate" /\ call' # call /\ unregistered(tree.sub_vars))
          => (is_error(call'.ret) /\ blocks' = blocks)
       /\ is_error(call'.ret) => blocks' = blocks

----------------------------------------------------------------------------
(* Projections between the grids of a list and the whole list             *)
(* (SubdomainProjections) and the sign of the two sides of the interfaces  *)
(* (MortarProjections.sign_of_mortar_sides).                               *)

\* scipy.sparse.hstack of two matrices with the same number of rows
hstack2(A, B) ==
    coo_matrix(A.nz \cup {<<t[1], t[2] + A.shape[2], t[3]>> : t \in B.nz},
               A.shape[1], A.shape[2] + B.shape[2])

RECURSIVE dot(_, _, _, _)
\* sum over k < n of A[i, k] * B[k, j]
dot(A, B, ij, n) ==
    IF n = 0 THEN 0
    ELSE dot(A, B, ij, n - 1) + At(A, ij[1], n - 1) * At(B, n - 1, ij[2])

\* the matrix product A * B
matmul(A, B) ==
    coo_matrix({<<ij[1], ij[2], dot(A, B, ij, A.shape[2])>> :
                   ij \in {c \in (0..(A.shape[1] - 1)) \X (0..(B.shape[2] - 1)) :
                              dot(A, B, c, A.shape[2]) # 0}},
               A.shape[1], B.shape[2])

identity(n) == coo_matrix({<<i, i, 1>> : i \in 0..(n - 1)}, n, n)

ones(n) == [k \in 1..n |-> 1]

\* coo_matrix((data, (row, col)), shape=(nrow, ncol))
coo_from(data, row, col, nrow, ncol) ==
    coo_matrix({<<row[k], col[k], data[k]>> : k \in {q \in 1..Len(data) : data[q] # 0}},
               nrow, ncol)

entity_count(g, what) == IF what = "cell" THEN num_cells(g) ELSE num_faces(g)

RECURSIVE total_count(_, _)
\* the number of cells (faces) of all grids of a list
total_count(gs, what) ==
    IF gs = <<>> THEN 0
    ELSE entity_count(Head(gs), what) + total_count(Tail(gs), what)

list_ind_of_grid(subdomains, g) ==
    CHOOSE i \in 1..Len(subdomains) : subdomains[i] = g

\* the number of cells (faces) of the grids listed before g
offset_of(subdomains, g, what) ==
    total_count(SubSeq(subdomains, 1, list_ind_of_grid(subdomains, g) - 1), what)

\* the prolongation of one grid: local dof i goes to dof nd * offset + i of
\* the concatenated ordering
prolongation_of_grid(subdomains, nd, g, what) ==
    LET n == nd * entity_count(g, what)
    IN coo_matrix({<<nd * offset_of(subdomains, g, what) + i, i, 1>> :
                      i \in 0..(n - 1)},
                  nd * total_count(subdomains, what), n)

\* the restriction to one grid: one row per local dof, one column per dof of
\* the concatenated ordering
restriction_to_grid(subdomains, nd, g, what) ==
    LET n == nd * entity_count(g, what)
    IN coo_matrix({<<i, nd * offset_of(subdomains, g, what) + i, 1>> :
                      i \in 0..(n - 1)},
                  n, nd * total_count(subdomains, what))

RECURSIVE restriction(_, _, _, _)
\* cell_restriction / face_restriction of a list of grids: the restrictions
\* of the grids stacked row-wise in the order of the list
restriction(subdomains, nd, grids, what) ==
    IF Len(grids) = 1
    THEN restriction_to_grid(subdomains, nd, grids[1], what)
    ELSE vstack2(restriction(subdomains, nd, SubSeq(grids, 1, Len(grids) - 1), what),
                 restriction_to_grid(subdomains, nd, grids[Len(grids)], what))

RECURSIVE prolongation(_, _, _, _)
\* cell_prolongation / face_prolongation of a list of grids: the
\* prolongations of the grids side by side in the order of the list
prolongation(subdomains, nd, grids, what) ==
    IF Len(grids) = 1
    THEN prolongation_of_grid(subdomains, nd, grids[1], what)
    ELSE hstack2(prolongation(subdomains, nd, SubSeq(grids, 1, Len(grids) - 1), what),
                 prolongation_of_grid(subdomains, nd, grids[Len(grids)], what))

\* the sign of the dofs of one interface: -1 on the cells of the first side,
\* +1 on the cells of the second, nd dofs per cell
sign_of_sides(intf, nd) ==
    [k \in 1..(nd * num_cells(intf)) |->
        IF 2 * ((k - 1) \div nd) < num_cells(intf) THEN -1 ELSE 1]

\* MortarProjections.sign_of_mortar_sides: the signs of the interfaces of
\* the list on the diagonal, interface after interface
sign_of_mortar_sides(interfaces, nd) ==
    LET vals == hstack([k \in 1..Len(interfaces) |-> sign_of_sides(interfaces[k], nd)])
    IN coo_matrix({<<i - 1, i - 1, vals[i]>> : i \in 1..Len(vals)},
                  Len(vals), Len(vals))

----------------------------------------------------------------------------
(* The matrices the tests build by hand (test_subdomain_projections,       *)
(* test_mortar_projections).                                               *)

\* pp.fvutils.expand_indices_nd: index i becomes nd * i, ..., nd * i + nd - 1
expand_indices_nd(ind, nd) ==
    [k \in 1..(nd * Len(ind)) |-> nd * ind[((k - 1) \div nd) + 1] + ((k - 1) % nd)]

RECURSIVE cumsum0(_, _)
\* the starts without the leading zero
cumsum0(gs, what) ==
    IF gs = <<>> THEN <<>>
    ELSE cumsum0(SubSeq(gs, 1, Len(gs) - 1), what) \o <<total_count(gs, what)>>

\* np.cumsum(np.hstack((0, [sd.num_cells for sd in subdomains])))
cumsum(gs, what) == <<0>> \o cumsum0(gs, what)

\* _mat_inds with the columns of the grid listed first
mat_inds_first_grid(n, grid_ind, scalar, Nd, start) ==
    LET inds == arange(start[1], start[1] + n)
    IN IF scalar
       THEN [data |-> ones(n), row |-> arange(0, n), col |-> inds]
       ELSE [data |-> ones(n * Nd), row |-> arange(0, n * Nd),
             col |-> expand_indices_nd(inds, Nd)]

\* _mat_inds for the cells (what = "cell") or the faces of grid grid_ind
mat_inds(n, grid_ind, scalar, Nd, start) ==
    LET inds == arange(start[grid_ind], start[grid_ind + 1])
    IN IF scalar
       THEN [data |-> ones(n), row |-> arange(0, n), col |-> inds]
       ELSE [data |-> ones(n * Nd), row |-> arange(0, n * Nd),
             col |-> expand_indices_nd(inds, Nd)]

RECURSIVE known_inds_unshifted(_, _, _, _)
\* the indices of the grids of a list with the rows of every grid from 0
known_inds_unshifted(subdomains, nd, grids, what) ==
    LET g == grids[Len(grids)]
        m == mat_inds(entity_count(g, what), list_ind_of_grid(subdomains, g),
                      nd = 1, nd, cumsum(subdomains, what))
    IN IF Len(grids) = 1 THEN m
       ELSE LET before == known_inds_unshifted(subdomains, nd,
                                     SubSeq(grids, 1, Len(grids) - 1), what)
            IN [data |-> before.data \o m.data,
                row |-> before.row \o m.row,
                col |-> before.col \o m.col]

RECURSIVE known_inds(_, _, _, _)
\* the indices of the grids of a list, the rows of each grid moved past the
\* rows of the grids before it
known_inds(subdomains, nd, grids, what) ==
    LET g == grids[Len(grids)]
        m == mat_inds(entity_count(g, what), list_ind_of_grid(subdomains, g),
                      nd = 1, nd, cumsum(subdomains, what))
    IN IF Len(grids) = 1 THEN m
       ELSE LET before == known_inds(subdomains, nd,
                                     SubSeq(grids, 1, Len(grids) - 1), what)
            IN [data |-> before.data \o m.data,
                row |-> before.row \o [k \in 1..Len(m.row) |->
                                          m.row[k] + Len(before.row)],
                col |-> before.col \o m.col]

\* known_cell_proj / known_face_proj
known_proj(subdomains, nd, grids, what) ==
    LET m == known_inds(subdomains, nd, grids, what)
    IN coo_from(m.data, m.row, m.col,
                nd * total_count(grids, what), nd * total_count(subdomains, what))

\* np.round(n / 2): halves go to the even neighbour
round_half(n) ==
    IF n % 2 = 0 THEN n \div 2
    ELSE IF ((n - 1) \div 2) % 2 = 0 THEN (n - 1) \div 2 ELSE (n + 1) \div 2

RECURSIVE known_sgn_vals_plus_first(_, _)
\* vals with the sides in the other order
known_sgn_vals_plus_first(interfaces, nd) ==
    IF interfaces = <<>> THEN <<>>
    ELSE LET intf == interfaces[Len(interfaces)]
             sz == round_half(num_cells(intf)) * nd
         IN known_sgn_vals_plus_first(SubSeq(interfaces, 1, Len(interfaces) - 1), nd)
                \o ones(sz) \o scale(-1, ones(sz))

RECURSIVE known_sgn_vals(_, _)
\* vals: for each interface -ones(sz) then ones(sz)
known_sgn_vals(interfaces, nd) ==
    IF interfaces = <<>> THEN <<>>
    ELSE LET intf == interfaces[Len(interfaces)]
             sz == round_half(num_cells(intf)) * nd
         IN known_sgn_vals(SubSeq(interfaces, 1, Len(interfaces) - 1), nd)
                \o scale(-1, ones(sz)) \o ones(sz)

\* sps.dia_matrix((vals, 0), shape=(n, n))
dia_matrix(vals, n) ==
    coo_matrix({<<i - 1, i - 1, vals[i]>> :
                   i \in {q \in 1..Len(vals) : q <= n /\ vals[q] # 0}}, n, n)

\* known_sgn_mat
known_sgn_mat(interfaces, nd) ==
    dia_matrix(known_sgn_vals(interfaces, nd), nd * total_count(interfaces, "cell"))

----------------------------------------------------------------------------
(* Mortar projections between the interfaces and the faces of their        *)
(* primary grids (MortarProjections, test_mortar_projections).             *)

\* the grid of higher dimension an interface is attached to
primary_of(intf) == IF intf = "intf" THEN "g1" ELSE "g0"

\* the face of the primary grid that each mortar cell matches, mortar cell
\* after mortar cell; the interfaces match their grids face by face
primary_faces(intf) == IF intf = "intf" THEN <<1, 0>> ELSE <<1, 3, 0, 2>>

\* intf.mortar_to_primary_int(nd) and intf.mortar_to_primary_avg(nd): one
\* column per mortar dof with a 1 in the row of the matching face dof; on
\* matching grids the weights of the averaged variant are all 1
intf_mortar_to_primary(intf, nd, variant) ==
    coo_matrix({<<nd * primary_faces(intf)[c + 1] + d, nd * c + d, 1>> :
                   c \in 0..(num_cells(intf) - 1), d \in 0..(nd - 1)},
               nd * num_faces(primary_of(intf)), nd * num_cells(intf))

\* intf.primary_to_mortar_int(nd) and intf.primary_to_mortar_avg(nd)
intf_primary_to_mortar(intf, nd, variant) ==
    transpose(intf_mortar_to_primary(intf, nd, variant))

\* MortarProjections.mortar_to_primary_int / _avg: the matrices of the
\* interfaces side by side in the order of the list, each in the rows of the
\* faces of its primary grid
mortar_to_primary(subdomains, interfaces, nd, variant) ==
    coo_matrix(
        UNION {{<<t[1] + nd * offset_of(subdomains, primary_of(interfaces[k]), "face"),
                  t[2] + nd * total_count(SubSeq(interfaces, 1, k - 1), "cell"),
                  t[3]>> :
                   t \in intf_mortar_to_primary(interfaces[k], nd, variant).nz} :
               k \in 1..Len(interfaces)},
        nd * total_count(subdomains, "face"), nd * total_count(interfaces, "cell"))

\* MortarProjections.primary_to_mortar_int / _avg: the matrices of the
\* interfaces one below the other, each in the columns of its primary grid
primary_to_mortar(subdomains, interfaces, nd, variant) ==
    coo_matrix(
        UNION {{<<t[1] + nd * total_count(SubSeq(interfaces, 1, k - 1), "cell"),
                  t[2] + nd * offset_of(subdomains, primary_of(interfaces[k]), "face"),
                  t[3]>> :
                   t \in intf_primary_to_mortar(interfaces[k], nd, variant).nz} :
               k \in 1..Len(interfaces)},
        nd * total_count(interfaces, "cell"), nd * total_count(subdomains, "face"))

MortarNames == {"mortar_to_primary_int", "mortar_to_primary_avg",
                "primary_to_mortar_int", "primary_to_mortar_avg"}

\* the attribute of a MortarProjections object by its name
mortar_projection(subdomains, interfaces, nd, name) ==
    CASE name = "mortar_to_primary_int" ->
             mortar_to_primary(subdomains, interfaces, nd, "int")
      [] name = "mortar_to_primary_avg" ->
             mortar_to_primary(subdomains, interfaces, nd, "avg")
      [] name = "primary_to_mortar_int" ->
             primary_to_mortar(subdomains, interfaces, nd, "int")
      [] name = "primary_to_mortar_avg" ->
             primary_to_mortar(subdomains, interfaces, nd, "avg")

RECURSIVE find_rows_of(_)
\* the first components of (column, row) keys, least key first
find_rows_of(keys) ==
    IF keys = {} THEN <<>>
    ELSE LET first == CHOOSE p \in keys :
                          \A q \in keys : p[1] < q[1] \/ (p[1] = q[1] /\ p[2] <= q[2])
         IN <<first[2]>> \o find_rows_of(keys \ {first})

\* sps.find(A)[0]: the rows of the nonzeros of A, column after column
find_rows(A) == find_rows_of({<<t[2], t[1]>> : t \in A.nz})

\* rows_higher with the faces of every grid counted from 0
rows_higher_local(subdomains, interfaces, nd) ==
    hstack([k \in 1..Len(interfaces) |->
               find_rows(intf_mortar_to_primary(interfaces[k], nd, "int"))])

\* rows_higher: f0, f1 + face_start[1], f2 + face_start[2]: the faces of the
\* mortar cells of each interface, shifted by the face start of its primary
rows_higher(subdomains, interfaces, nd) ==
    hstack([k \in 1..Len(interfaces) |->
               LET f == find_rows(intf_mortar_to_primary(interfaces[k], nd, "int"))
                   face_start == scale(nd, cumsum(subdomains, "face"))
                   i == list_ind_of_grid(subdomains, primary_of(interfaces[k]))
               IN [q \in 1..Len(f) |-> f[q] + face_start[i]]])

\* proj_known_higher: coo_matrix((data, (rows_higher, cols_higher)), (NF, NMC))
proj_known_higher(subdomains, interfaces, nd) ==
    LET NMC == nd * total_count(interfaces, "cell")
        NF == nd * total_count(subdomains, "face")
    IN coo_from(ones(NMC), rows_higher(subdomains, interfaces, nd),
                arange(0, NMC), NF, NMC)

----------------------------------------------------------------------------
(* Discretization matrices and their parsing                               *)
(* (test_ad_discretization_class).                                         *)

\* key and sub_key of the two discretizations, and the one matrix name
Keywords == {"foo", "bar"}
MatrixNames == {"foobar"}

\* the grids whose store is given a matrix under the keyword: every grid for
\* key, the grids of sub_list for sub_key
grids_with(key) == IF key = "foo" THEN Grids ELSE {"g0", "g1"}

\* data[pp.DISCRETIZATION_MATRICES][key][name] of a grid: one row and one
\* column per cell of the grid, no two stored entries alike
stored_matrix(g, key, name) ==
    LET n == num_cells(g)
        base == (IF key = "foo" THEN 100 ELSE 200)
                    + (CASE g = "g0" -> 10 [] g = "g1" -> 20 [] OTHER -> 30)
    IN coo_matrix({<<r, c, base + n * r + c>> : r, c \in 0..(n - 1)}, n, n)

RECURSIVE block_diag(_)
\* sps.block_diag of a list of matrices: block after block on the diagonal
block_diag(ms) ==
    IF ms = <<>> THEN EmptyMatrix
    ELSE LET n == Len(ms)
             A == block_diag(SubSeq(ms, 1, n - 1))
             B == ms[n]
         IN coo_matrix(A.nz \cup {<<t[1] + A.shape[1], t[2] + A.shape[2], t[3]>> :
                                     t \in B.nz},
                       A.shape[1] + B.shape[1], A.shape[2] + B.shape[2])

\* discr_ad.<name>.parse(mdg) of a discretization with the given keyword on
\* the ordered list of grids
parse(grids, key, name) ==
    block_diag([k \in 1..Len(grids) |-> stored_matrix(grids[k], key, name)])

\* M.diagonal()
diagonal(M) ==
    [k \in 1..(IF M.shape[1] < M.shape[2] THEN M.shape[1] ELSE M.shape[2]) |->
        At(M, k - 1, k - 1)]

\* the stored values collected with the list of grids read backwards
known_val_reversed(grids, key, name) ==
    hstack([k \in 1..Len(grids) |->
               diagonal(stored_matrix(grids[Len(grids) + 1 - k], key, name))])

\* known_val / known_sub_val: the values assigned to the stores of the grids
\* of the list, grid after grid
known_val(grids, key, name) ==
    hstack([k \in 1..Len(grids) |-> diagonal(stored_matrix(grids[k], key, name))])

----------------------------------------------------------------------------
(* The operations on projections.                                          *)

\* dofs per cell / face of the projections (1: scalar, else the dimension)
MaxNd == 2

\* ordered lists of distinct members of S, one member at least
Lists(S) ==
    {l \in UNION {[1..n -> S] : n \in 1..Cardinality(S)} :
        \A i, j \in 1..Len(l) : i # j => l[i] # l[j]}

Members(l) == {l[k] : k \in 1..Len(l)}

InitProj ==
    /\ blocks = <<>>
    /\ iterate_stored = FALSE
    /\ tree = NoTree
    /\ call = NoCall
    /\ proj = NoProj
    /\ ad = NoAd
    /\ coarse = NoCoarse

\* pp.ad.SubdomainProjections(subdomains, nd)
SubdomainProjections(subdomains, nd) ==
    /\ proj' = [op |-> "SubdomainProjections", subdomains |-> subdomains,
                interfaces |-> <<>>, nd |-> nd, arg |-> <<>>,
                mat |-> EmptyMatrix]
    /\ UNCHANGED <<regVars, ad, coarse>>

\* proj.cell_restriction(grids), proj.face_restriction(grids)
Restriction(grids, what) ==
    /\ proj.subdomains # <<>> /\ proj.interfaces = <<>>
    /\ Members(grids) \subseteq Members(proj.subdomains)
    /\ proj' = [proj EXCEPT !.op = what \o "_restriction", !.arg = grids,
                            !.mat = restriction(proj.subdomains, proj.nd, grids, what)]
    /\ UNCHANGED <<regVars, ad, coarse>>

\* proj.cell_prolongation(grids), proj.face_prolongation(grids)
Prolongation(grids, what) ==
    /\ proj.subdomains # <<>> /\ proj.interfaces = <<>>
    /\ Members(grids) \subseteq Members(proj.subdomains)
    /\ proj' = [proj EXCEPT !.op = what \o "_prolongation", !.arg = grids,
                            !.mat = prolongation(proj.subdomains, proj.nd, grids, what)]
    /\ UNCHANGED <<regVars, ad, coarse>>

\* pp.ad.MortarProjections(interfaces, nd).sign_of_mortar_sides
SignOfMortarSides(interfaces, nd) ==
    /\ proj' = [op |-> "sign_of_mortar_sides", subdomains |-> <<>>,
                interfaces |-> interfaces, nd |-> nd, arg |-> <<>>,
                mat |-> sign_of_mortar_sides(interfaces, nd)]
    /\ UNCHANGED <<regVars, ad, coarse>>

\* pp.ad.MortarProjections(subdomains, interfaces, nd) and one of its
\* projections between the mortar cells and the faces of the primary grids
MortarProjections(subdomains, interfaces, nd, name) ==
    /\ \A k \in 1..Len(interfaces) :
          primary_of(interfaces[k]) \in Members(subdomains)
    /\ proj' = [op |-> name, subdomains |-> subdomains,
                interfaces |-> interfaces, nd |-> nd, arg |-> <<>>,
                mat |-> mortar_projection(subdomains, interfaces, nd, name)]
    /\ UNCHANGED <<regVars, ad, coarse>>

\* discr_ad.<name>.parse(mdg) for a discretization with keyword key that is
\* defined on the ordered list of grids
Parse(grids, key, name) ==
    /\ Members(grids) \subseteq grids_with(key)
    /\ proj' = [op |-> "parse", subdomains |-> grids, interfaces |-> <<>>,
                nd |-> 1, arg |-> <<key, name>>,
                mat |-> parse(grids, key, name)]
    /\ UNCHANGED <<regVars, ad, coarse>>

NextProj ==
    \/ \E sds \in Lists(Grids), nd \in 1..MaxNd : SubdomainProjections(sds, nd)
    \/ \E gs \in Lists(Grids), what \in {"cell", "face"} : Restriction(gs, what)
    \/ \E gs \in Lists(Grids), what \in {"cell", "face"} : Prolongation(gs, what)
    \/ \E is \in Lists(Interfaces), nd \in 1..MaxNd : SignOfMortarSides(is, nd)
    \/ \E sds \in Lists(Grids), is \in Lists(Interfaces), nd \in 1..MaxNd,
          name \in MortarNames : MortarProjections(sds, is, nd, name)
    \/ \E gs \in Lists(Grids), key \in Keywords, name \in MatrixNames :
          Parse(gs, key, name)

SpecProj == InitProj /\ [][NextProj]_vars

\* C8: sign_of_mortar_sides is a diagonal matrix over the mortar cells
\* (times nd) of the listed interfaces, in the order of the list, with -1 on
\* the first half of each interface's cells and +1 on the second half (the
\* matrix known_sgn_mat of the tests); it squares to the identity.
C8_SignMatrixIsKnownAndInvolution ==
    proj.op = "sign_of_mortar_sides"
    => LET n == proj.nd * total_count(proj.interfaces, "cell")
       IN /\ proj.mat = known_sgn_mat(proj.interfaces, proj.nd)
          /\ proj.mat.shape = <<n, n>>
          /\ \A t \in proj.mat.nz : t[1] = t[2] /\ t[3] \in {-1, 1}
          /\ \A i \in 0..(n - 1) : At(proj.mat, i, i) # 0
          /\ matmul(proj.mat, proj.mat) = identity(n)

C8_Witness ==
    /\ proj.op = "sign_of_mortar_sides"
    /\ proj.interfaces = <<"intf2", "intf">>
    /\ proj.nd = 2
    /\ At(proj.mat, 3, 3) = -1 /\ At(proj.mat, 4, 4) = 1
    /\ At(proj.mat, 9, 9) = -1 /\ At(proj.mat, 10, 10) = 1

\* C9: cell_restriction (face_restriction) of a grid is the 0/1 matrix with
\* one row per local cell (face) dof and one column per dof of the
\* concatenated ordering of all grids, row i having its single 1 at column
\* nd * offset(g) + i; for a list of grids the restrictions of the grids are
\* stacked row-wise in the order of the list (known_cell_proj,
\* known_face_proj of the tests).
C9_RestrictionSelectsGridBlock ==
    proj.op \in {"cell_restriction", "face_restriction"}
    => LET what == IF proj.op = "cell_restriction" THEN "cell" ELSE "face"
           sds == proj.subdomains
           nd == proj.nd
       IN /\ proj.mat = known_proj(sds, nd, proj.arg, what)
          /\ proj.mat.shape = <<nd * total_count(proj.arg, what),
                                nd * total_count(sds, what)>>
          /\ \A k \in 1..Len(proj.arg) :
                LET before == nd * total_count(SubSeq(proj.arg, 1, k - 1), what)
                    n == nd * entity_count(proj.arg[k], what)
                IN \A i \in 0..(n - 1), j \in 0..(proj.mat.shape[2] - 1) :
                      At(proj.mat, before + i, j)
                          = IF j = nd * offset_of(sds, proj.arg[k], what) + i
                            THEN 1 ELSE 0
          /\ Cardinality(proj.mat.nz) = proj.mat.shape[1]

C9_Witness ==
    /\ proj.op = "cell_restriction"
    /\ proj.subdomains = <<"g0", "g1", "g2">>
    /\ proj.arg = <<"g2", "g1">>
    /\ proj.nd = 2
    /\ proj.mat.shape = <<4, 8>>
    /\ At(proj.mat, 0, 6) = 1 /\ At(proj.mat, 3, 5) = 1

\* C10: cell_prolongation (face_prolongation) of a grid or a list of grids
\* is the transpose of the cell_restriction (face_restriction) of the same
\* list, and restriction times prolongation is the identity on the rows of
\* the listed grids.
C10_ProlongationIsTransposedRestriction ==
    proj.op \in {"cell_prolongation", "face_prolongation"}
    => LET what == IF proj.op = "cell_prolongation" THEN "cell" ELSE "face"
           R == restriction(proj.subdomains, proj.nd, proj.arg, what)
       IN /\ proj.mat = transpose(R)
          /\ proj.mat = transpose(known_proj(proj.subdomains, proj.nd, proj.arg, what))
          /\ matmul(R, proj.mat) = identity(proj.nd * total_count(proj.arg, what))

C10_Witness ==
    /\ proj.op = "face_prolongation"
    /\ proj.subdomains = <<"g1", "g2", "g0">>
    /\ proj.arg = <<"g0", "g1">>
    /\ proj.nd = 2
    /\ proj.mat.shape = <<12, 12>>
    /\ At(proj.mat, 4, 0) = 1 /\ At(proj.mat, 0, 8) = 1

----------------------------------------------------------------------------
(* Forward-mode AD pairs (Ad_array).  Numbers are exact fractions <<n, d>> *)
(* in lowest terms with d > 0, so that quotients are represented and two   *)
(* numbers are equal exactly when the tuples are.  A value is a sequence   *)
(* of numbers (a scalar is a sequence of length 1), a Jacobian a dense     *)
(* matrix: the sequence of its rows.                                       *)

RECURSIVE gcd(_, _)
gcd(m, n) == IF n = 0 THEN m ELSE gcd(n, m % n)

abs(n) == IF n < 0 THEN -n ELSE n

sgn(n) == IF n < 0 THEN -1 ELSE IF n > 0 THEN 1 ELSE 0

\* the number n / d; as for floating-point numbers a division by zero gives
\* an infinity <<1, 0>>, <<-1, 0>> or, for 0 / 0, the nan <<0, 0>>
frac(n, d) ==
    IF d = 0 THEN <<sgn(n), 0>>
    ELSE LET g == gcd(abs(n), abs(d))
         IN  <<(sgn(d) * n) \div g, abs(d) \div g>>

q_int(n) == <<n, 1>>
q_add(x, y) == frac(x[1] * y[2] + y[1] * x[2], x[2] * y[2])
q_neg(x) == <<-x[1], x[2]>>
q_sub(x, y) == q_add(x, q_neg(y))
q_mul(x, y) == frac(x[1] * y[1], x[2] * y[2])
\* x / y
q_div(x, y) == frac(x[1] * y[2], x[2] * y[1])

RECURSIVE q_pow(_, _)
\* x ** c for an integer c
q_pow(x, c) ==
    IF c = 0 THEN q_int(1)
    ELSE IF c > 0 THEN q_mul(x, q_pow(x, c - 1))
    ELSE q_div(q_int(1), q_pow(x, -c))

RECURSIVE q_sum(_)
q_sum(xs) == IF xs = <<>> THEN q_int(0) ELSE q_add(Head(xs), q_sum(Tail(xs)))

\* np.array([...]) of integers
array(ns) == [k \in 1..Len(ns) |-> q_int(ns[k])]

\* a matrix given by its integer rows
matrix(rs) == [i \in 1..Len(rs) |-> array(rs[i])]

num_rows(J) == Len(J)
num_cols(J) == IF Len(J) = 0 THEN 0 ELSE Len(J[1])

v_add(x, y) == [k \in 1..Len(x) |-> q_add(x[k], y[k])]
v_neg(x) == [k \in 1..Len(x) |-> q_neg(x[k])]
v_mul(x, y) == [k \in 1..Len(x) |-> q_mul(x[k], y[k])]
v_pow(x, c) == [k \in 1..Len(x) |-> q_pow(x[k], c)]
v_scale(c, x) == [k \in 1..Len(x) |-> q_mul(c, x[k])]

m_add(A, B) ==
    [i \in 1..num_rows(A) |-> [j \in 1..num_cols(A) |-> q_add(A[i][j], B[i][j])]]
m_neg(A) ==
    [i \in 1..num_rows(A) |-> [j \in 1..num_cols(A) |-> q_neg(A[i][j])]]
m_zeros(n, m) == [i \in 1..n |-> [j \in 1..m |-> q_int(0)]]

\* A * B for matrices, num_cols(A) = num_rows(B)
m_matmul(A, B) ==
    [i \in 1..num_rows(A) |->
        [j \in 1..num_cols(B) |->
            q_sum([k \in 1..num_cols(A) |-> q_mul(A[i][k], B[k][j])])]]

\* A * x for a matrix and a vector, num_cols(A) = Len(x)
m_matvec(A, x) ==
    [i \in 1..num_rows(A) |->
        q_sum([k \in 1..Len(x) |-> q_mul(A[i][k], x[k])])]

\* x * A for a vector and a matrix, Len(x) = num_rows(A)
m_vecmat(x, A) ==
    [j \in 1..num_cols(A) |->
        q_sum([k \in 1..Len(x) |-> q_mul(x[k], A[k][j])])]

\* sps.diags(d) * J : row i of J scaled by d[i]
diagvec_mul_jac(J, d) ==
    [i \in 1..num_rows(J) |-> [j \in 1..num_cols(J) |-> q_mul(d[i], J[i][j])]]

\* a failed operation: no pair is produced
AdRaised(kind) == [kind |-> kind, val |-> <<>>, jac |-> <<>>]

AdErrorKinds == {"ShapeError", "DomainError"}

same_shape(u, v) ==
    /\ Len(u.val) = Len(v.val)
    /\ num_rows(u.jac) = num_rows(v.jac)
    /\ num_cols(u.jac) = num_cols(v.jac)

\* a plain scalar broadcast to the length of u's value
broadcast(o, u) ==
    IF o.kind = "scalar" THEN [k \in 1..Len(u.val) |-> o.val[1]] ELSE o.val

\* the other operand as a pair: a constant gets a zero Jacobian
cast(o, u) ==
    IF o.kind = "Ad_array" THEN Pair(o.val, o.mat)
    ELSE Pair(broadcast(o, u), m_zeros(num_rows(u.jac), num_cols(u.jac)))

neg(u) == Pair(v_neg(u.val), m_neg(u.jac))

\* u + other
add(u, o) ==
    LET b == cast(o, u)
    IN  IF ~same_shape(u, b) THEN AdRaised("ShapeError")
        ELSE Ad_array(v_add(u.val, b.val), m_add(u.jac, b.jac))

\* other + u
radd(u, o) == add(u, o)

\* u - other : the negated copy of the other operand is added
sub(u, o) ==
    LET b == cast(o, u)
    IN  IF ~same_shape(u, b) THEN AdRaised("ShapeError")
        ELSE add(u, Operand("Ad_array", "none", neg(b).val, neg(b).jac))

\* other - u
rsub(u, o) ==
    LET r == sub(u, o)
    IN  IF r.kind # "Ad_array" THEN r ELSE Ad_array(neg(r).val, neg(r).jac)

\* u * other : product rule for two pairs, a constant scales the rows of the
\* Jacobian; with a constant matrix on the right the value is u.val * A and
\* the Jacobian u.jac * A (test_mul_ad_var_mat)
mul(u, o) ==
    IF o.kind = "spmatrix"
    THEN IF Len(u.val) # num_rows(o.mat) \/ num_cols(u.jac) # num_rows(o.mat)
         THEN AdRaised("ShapeError")
         ELSE Ad_array(m_vecmat(u.val, o.mat), m_matmul(u.jac, o.mat))
    ELSE IF o.kind = "Ad_array"
    THEN IF ~same_shape(u, cast(o, u)) THEN AdRaised("ShapeError")
         ELSE Ad_array(v_mul(u.val, o.val),
                       m_add(diagvec_mul_jac(u.jac, o.val),
                             diagvec_mul_jac(o.mat, u.val)))
    ELSE IF Len(broadcast(o, u)) # Len(u.val) THEN AdRaised("ShapeError")
         ELSE Ad_array(v_mul(u.val, broadcast(o, u)),
                       diagvec_mul_jac(u.jac, broadcast(o, u)))

\* other * u for a constant other; with a constant matrix on the left the
\* value is A * u.val and the Jacobian A * u.jac (test_mul_sps_advar)
rmul(u, o) ==
    IF o.kind = "spmatrix"
    THEN IF num_cols(o.mat) # Len(u.val) \/ num_cols(o.mat) # num_rows(u.jac)
         THEN AdRaised("ShapeError")
         ELSE Ad_array(m_matvec(o.mat, u.val), m_matmul(o.mat, u.jac))
    ELSE mul(u, o)

\* u ** c for a constant integer exponent c
pow(u, c) ==
    Ad_array(v_pow(u.val, c),
             diagvec_mul_jac(u.jac, v_scale(q_int(c), v_pow(u.val, c - 1))))

\* only the first entry is looked at
has_zero_first(x) == Len(x) > 0 /\ x[1] = q_int(0)

has_zero(x) == \E k \in 1..Len(x) : x[k] = q_int(0)

\* u / other : u * other ** -1; a zero entry in the divisor is a domain error
truediv(u, o) ==
    IF has_zero(o.val) THEN AdRaised("DomainError")
    ELSE IF o.kind = "Ad_array"
    THEN LET r == pow(Pair(o.val, o.mat), -1)
         IN  mul(u, Operand("Ad_array", "none", r.val, r.jac))
    ELSE mul(u, Operand(o.kind, "none", v_pow(o.val, -1), <<>>))

BinaryOps == {"add", "radd", "sub", "rsub", "mul", "rmul", "truediv", "pow"}

\* the operation op applied to the pair u and the other operand
ad_apply(op, u, o) ==
    CASE op = "add" -> add(u, o)
      [] op = "radd" -> radd(u, o)
      [] op = "sub" -> sub(u, o)
      [] op = "rsub" -> rsub(u, o)
      [] op = "mul" -> mul(u, o)
      [] op = "rmul" -> rmul(u, o)
      [] op = "truediv" -> truediv(u, o)
      [] op = "pow" -> pow(u, o.val[1][1])

----------------------------------------------------------------------------
(* Objects and buffers.  A name is bound to an object, an object refers to *)
(* the buffer of its value and the buffer of its Jacobian; two names may   *)
(* be bound to one object and two objects may share a buffer, which is     *)
(* what an in-place write shows.                                           *)

Least(S) == CHOOSE k \in S : \A l \in S : k <= l

\* what the name n holds in the heap h
contents(h, n) ==
    IF h.names[n] = 0 THEN NoPair
    ELSE Pair(h.vbuf[h.objs[h.names[n]].v], h.jbuf[h.objs[h.names[n]].j])

snapshot(h) == [n \in AdNames |-> contents(h, n)]

live_objs(h) == {h.names[n] : n \in AdNames} \ {0}

\* objects no name is bound to and buffers no object refers to are released
gc(h) ==
    LET lo == live_objs(h)
        lv == {h.objs[o].v : o \in lo}
        lj == {h.objs[o].j : o \in lo}
    IN  [h EXCEPT
           !.objs = [o \in 1..3 |-> IF o \in lo THEN h.objs[o] ELSE [v |-> 0, j |-> 0]],
           !.vbuf = [k \in 1..3 |-> IF k \in lv THEN h.vbuf[k] ELSE <<>>],
           !.jbuf = [k \in 1..3 |-> IF k \in lj THEN h.jbuf[k] ELSE <<>>]]

\* the name n is unbound
unbind(h, n) == gc([h EXCEPT !.names[n] = 0])

\* n = Ad_array(val, jac): a new object with buffers of its own
bind(h, n, p) ==
    LET g == unbind(h, n)
        lo == live_objs(g)
        o == Least((1..3) \ lo)
        kv == Least((1..3) \ {g.objs[x].v : x \in lo})
        kj == Least((1..3) \ {g.objs[x].j : x \in lo})
    IN  [g EXCEPT !.names[n] = o,
                  !.objs[o] = [v |-> kv, j |-> kj],
                  !.vbuf[kv] = p.val,
                  !.jbuf[kj] = p.jac]

\* dst = src.copy(): a new object with copies of both buffers
copy(h, dst, src) == bind(h, dst, contents(h, src))

\* an operation that writes its result into self and returns self
store_in_place(h, self, r) ==
    LET o == h.names[self]
    IN  gc([h EXCEPT !.vbuf[h.objs[o].v] = r.val,
                     !.jbuf[h.objs[o].j] = r.jac,
                     !.names["c"] = o])

\* c = <result of an operation on self>: a new pair
store_result(h, self, r) == bind(h, "c", Pair(r.val, r.jac))

\* n.val = x: the object of n refers to a new value buffer
set_val(h, n, x) ==
    LET o == h.names[n]
        others == {h.objs[p].v : p \in live_objs(h) \ {o}}
        kv == Least((1..3) \ others)
    IN  gc([h EXCEPT !.objs[o].v = kv, !.vbuf[kv] = x])

\* n.jac = J
set_jac(h, n, J) ==
    LET o == h.names[n]
        others == {h.objs[p].j : p \in live_objs(h) \ {o}}
        kj == Least((1..3) \ others)
    IN  gc([h EXCEPT !.objs[o].j = kj, !.jbuf[kj] = J])

\* n.val[i] = x, in place (i is 0-based)
write_val(h, n, i, x) ==
    [h EXCEPT !.vbuf[h.objs[h.names[n]].v][i + 1] = x]

\* n.jac[i] = x, in place: every entry of row i
write_jac(h, n, i, x) ==
    LET kj == h.objs[h.names[n]].j
    IN  [h EXCEPT !.jbuf[kj][i + 1] = [c \in 1..num_cols(h.jbuf[kj]) |-> x]]

----------------------------------------------------------------------------
(* The pairs, constants and expected results of the tests of Ad_array.     *)

\* Ad_array(v, j) for numbers v, j
S(v, j) == Pair(array(<<v>>), matrix(<<<<j>>>>))

\* sps.diags(d) / np.diag(d)
diags(d) ==
    [i \in 1..Len(d) |-> [j \in 1..Len(d) |-> IF i = j THEN q_int(d[i]) ELSE q_int(0)]]

Scalar(c) == Operand("scalar", "none", array(<<c>>), <<>>)
Vector(ns) == Operand("ndarray", "none", array(ns), <<>>)
Matrix(M) == Operand("spmatrix", "none", <<>>, M)
AdOperand(n, p) == Operand("Ad_array", n, p.val, p.jac)

x_diag == Pair(array(<<1, 2, 3>>), diags(<<3, 2, 1>>))
J_mat == matrix(<<<<1, 3, 1>>, <<5, 0, 0>>, <<5, 1, 2>>>>)
a_vec == Pair(array(<<1, 2, 3>>), J_mat)
b_vec == Pair(array(<<1, 1, 1>>), diags(<<1, 1, 1>>))
ones_31 == Pair(array(<<1, 1, 1>>), matrix(<<<<1>>, <<1>>, <<1>>>>))
A_mat == matrix(<<<<1, 2, 3>>, <<4, 5, 6>>, <<7, 8, 9>>>>)
R_mat == matrix(<<<<1, 0, 1>>, <<0, 1, 0>>>>)
Jy == matrix(<<<<1, 0, 3>>, <<0, 2, 0>>>>)
Jz == matrix(<<<<1, 0, 3>>, <<0, 4, 0>>>>)

\* one assertion of a test: the operation, its operands, the expected value
\* and Jacobian, and how the test compares the Jacobian ("all": entrywise,
\* "sum": the differences sum to zero, "none": not compared)
TestCase(name, op, self, other, val, jac, check) ==
    [name |-> name, op |-> op, self |-> self, other |-> other,
     val |-> val, jac |-> jac, check |-> check]

test_add_two_ad_variables_wrong ==
    TestCase("test_add_two_ad_variables", "add", S(4, 1), AdOperand("b", S(9, 3)),
             array(<<13>>), matrix(<<<<3>>>>), "all")

test_add_two_ad_variables ==
    TestCase("test_add_two_ad_variables", "add", S(4, 1), AdOperand("b", S(9, 3)),
             array(<<13>>), matrix(<<<<4>>>>), "all")

test_sub_two_ad_variables ==
    TestCase("test_sub_two_ad_variables", "sub", S(4, 1), AdOperand("b", S(9, 3)),
             array(<<-5>>), matrix(<<<<-2>>>>), "all")

test_add_var_with_scal ==
    TestCase("test_add_var_with_scal", "add", S(3, 2), Scalar(3),
             array(<<6>>), matrix(<<<<2>>>>), "all")

test_add_scal_with_var ==
    TestCase("test_add_scal_with_var", "radd", S(3, 2), Scalar(3),
             array(<<6>>), matrix(<<<<2>>>>), "all")

test_sub_var_with_scal ==
    TestCase("test_sub_var_with_scal", "sub", S(3, 2), Scalar(3),
             array(<<0>>), matrix(<<<<2>>>>), "all")

test_sub_scal_with_var_wrong ==
    TestCase("test_sub_scal_with_var", "rsub", S(3, 2), Scalar(3),
             array(<<0>>), matrix(<<<<2>>>>), "all")

test_sub_scal_with_var ==
    TestCase("test_sub_scal_with_var", "rsub", S(3, 2), Scalar(3),
             array(<<0>>), matrix(<<<<-2>>>>), "all")

test_mul_ad_var_ad_scal ==
    TestCase("test_mul_ad_var_ad_scal", "mul", S(3, 3), AdOperand("b", S(2, 0)),
             array(<<6>>), matrix(<<<<6>>>>), "all")

test_mul_ad_var_ad_var_wrong ==
    TestCase("test_mul_ad_var_ad_var", "mul", S(3, 3), AdOperand("b", S(2, -4)),
             array(<<6>>), matrix(<<<<6>>>>), "all")

test_mul_ad_var_ad_var ==
    TestCase("test_mul_ad_var_ad_var", "mul", S(3, 3), AdOperand("b", S(2, -4)),
             array(<<6>>), matrix(<<<<-6>>>>), "all")

test_mul_ad_var_scal ==
    TestCase("test_mul_ad_var_scal", "mul", S(3, 3), Scalar(3),
             array(<<9>>), matrix(<<<<9>>>>), "all")

test_mul_scar_ad_var ==
    TestCase("test_mul_scar_ad_var", "rmul", S(3, 3), Scalar(3),
             array(<<9>>), matrix(<<<<9>>>>), "all")

test_mul_ad_var_mat_transposed ==
    TestCase("test_mul_ad_var_mat", "mul", x_diag, Matrix(A_mat),
             array(<<30, 36, 42>>), m_matmul(A_mat, diags(<<3, 2, 1>>)), "all")

test_mul_ad_var_mat ==
    TestCase("test_mul_ad_var_mat", "mul", x_diag, Matrix(A_mat),
             array(<<30, 36, 42>>), m_matmul(diags(<<3, 2, 1>>), A_mat), "all")

test_advar_mul_vec ==
    TestCase("test_advar_mul_vec", "mul", x_diag, Vector(<<1, 3, 10>>),
             array(<<1, 6, 30>>), diags(<<3, 6, 10>>), "all")

test_advar_m_mul_vec_n_y ==
    TestCase("test_advar_m_mul_vec_n", "rmul", x_diag, Matrix(R_mat),
             array(<<4, 2>>), Jy, "sum")

test_advar_m_mul_vec_n_z ==
    TestCase("test_advar_m_mul_vec_n", "mul",
             Pair(array(<<4, 2>>), m_matmul(R_mat, diags(<<3, 2, 1>>))),
             Vector(<<1, 2>>), array(<<4, 4>>), Jz, "sum")

test_mul_sps_advar ==
    TestCase("test_mul_sps_advar", "rmul", a_vec, Matrix(A_mat),
             array(<<14, 32, 50>>), m_matmul(A_mat, J_mat), "all")

test_mul_advar_vectors ==
    TestCase("test_mul_advar_vectors", "add",
             Pair(array(<<14, 32, 50>>), m_matmul(A_mat, J_mat)),
             AdOperand("b", b_vec), array(<<15, 33, 51>>),
             m_add(m_matmul(A_mat, J_mat), diags(<<1, 1, 1>>)), "all")

test_power_advar_scalar_wrong ==
    TestCase("test_power_advar_scalar", "pow", S(2, 3), Scalar(2),
             array(<<4>>), matrix(<<<<6>>>>), "all")

test_power_advar_scalar ==
    TestCase("test_power_advar_scalar", "pow", S(2, 3), Scalar(2),
             array(<<4>>), matrix(<<<<12>>>>), "all")

test_div_advar_scalar ==
    TestCase("test_div_advar_scalar", "truediv", S(10, 6), Scalar(2),
             array(<<5>>), matrix(<<<<2>>>>), "none")

test_div_advar_advar_wrong ==
    TestCase("test_div_advar_advar", "truediv", S(8, 12), AdOperand("b", S(4, 4)),
             array(<<2>>), matrix(<<<<2>>>>), "all")

test_div_advar_advar ==
    TestCase("test_div_advar_advar", "truediv", S(8, 12), AdOperand("b", S(4, 4)),
             array(<<2>>), matrix(<<<<1>>>>), "all")

TestCases ==
    {test_add_two_ad_variables, test_sub_two_ad_variables,
     test_add_var_with_scal, test_add_scal_with_var,
     test_sub_var_with_scal, test_sub_scal_with_var,
     test_mul_ad_var_ad_scal, test_mul_ad_var_ad_var,
     test_mul_ad_var_scal, test_mul_scar_ad_var,
     test_mul_ad_var_mat, test_advar_mul_vec,
     test_advar_m_mul_vec_n_y, test_advar_m_mul_vec_n_z,
     test_mul_sps_advar, test_mul_advar_vectors,
     test_power_advar_scalar, test_div_advar_scalar, test_div_advar_advar}

\* np.sum(J - K) == 0
sum_of_difference_is_zero(J, K) ==
    /\ num_rows(J) = num_rows(K)
    /\ num_cols(J) = num_cols(K)
    /\ q_sum([i \in 1..num_rows(J) |->
                q_sum([j \in 1..num_cols(J) |-> q_sub(J[i][j], K[i][j])])])
         = q_int(0)

\* the assertions of the test t on the result r
passes(t, r) ==
    /\ r.kind = "Ad_array"
    /\ r.val = t.val
    /\ CASE t.check = "all" -> r.jac = t.jac
         [] t.check = "sum" -> sum_of_difference_is_zero(r.jac, t.jac)
         [] OTHER -> TRUE

----------------------------------------------------------------------------
(* Operations on Ad_array objects.                                         *)

MaxOps == 2
MaxExp == 2

transposed(M) ==
    [j \in 1..num_cols(M) |-> [i \in 1..num_rows(M) |-> M[i][j]]]

\* the pairs the tests start from, pairs with a zero entry in the value,
\* and a pair whose Jacobian is not square
AdPairs ==
    {S(1, 0), S(4, 1), S(3, 2), S(3, 3), S(2, 3), S(10, 6), S(8, 12),
     x_diag, a_vec, ones_31,
     S(0, 5), Pair(array(<<2, 0, -1>>), J_mat)}

\* the pairs the tests use as second operand, and pairs with a zero entry
OtherPairs ==
    {S(9, 3), S(2, 0), S(2, -4), S(4, 4), b_vec,
     S(0, 5), Pair(array(<<2, 0, -1>>), J_mat)}

\* the constant operands: those of the tests, zero, a matrix that is not
\* square on the right, the integer exponents
AdConstants ==
    {t.other : t \in {s \in TestCases : s.other.kind # "Ad_array"}}
    \cup {Scalar(0), Matrix(transposed(R_mat))}

Exponents == {Scalar(c) : c \in (-MaxExp)..MaxExp}

\* the operand combinations the operators are applied to (a value of
\* length 1 is not broadcast against a longer one)
applicable(op, u, o) ==
    CASE op = "pow" ->
            /\ o \in Exponents
            /\ (o.val[1][1] <= 0 => ~has_zero(u.val))
      [] o.kind = "Ad_array" ->
            /\ op \in {"add", "sub", "mul", "truediv"}
            /\ (Len(u.val) = 1 <=> Len(o.val) = 1)
      [] o.kind = "spmatrix" -> op \in {"mul", "rmul"}
      [] o.kind = "ndarray" ->
            /\ (Len(u.val) = 1 <=> Len(o.val) = 1)
            /\ (op = "truediv" => ~has_zero(o.val))
      [] OTHER -> op = "truediv" => ~has_zero(o.val)

\* an operation starts from the pairs built first, or continues from the
\* result of a product with a constant matrix; nothing is applied to a pair
\* whose Jacobian has not one row per entry of the value
may_apply(h, self) ==
    /\ h.names[self] # 0
    /\ num_rows(contents(h, self).jac) = Len(contents(h, self).val)
    /\ h.count < MaxOps
    /\ \/ h.count = 0
       \/ self = "c" /\ h.last.other.kind = "spmatrix"

Last(op, self, other, pre, ret) ==
    [op |-> op, self |-> self, other |-> other, pre |-> pre, ret |-> ret]

InitAd ==
    /\ blocks = <<>>
    /\ iterate_stored = FALSE
    /\ tree = NoTree
    /\ call = NoCall
    /\ proj = NoProj
    /\ ad = NoAd
    /\ coarse = NoCoarse

\* n = Ad_array(val, jac)
AdCreate(n, p) ==
    /\ \/ n = "a" /\ p \in AdPairs
       \/ n = "b" /\ p \in OtherPairs /\ ad.names["a"] # 0
    /\ ad.names[n] = 0
    /\ ad.count = 0
    /\ ad' = [bind(ad, n, p) EXCEPT
                !.last = Last("Ad_array", n, NoOperand, snapshot(ad), "Ad_array")]
    /\ UNCHANGED <<regVars, proj, coarse>>

\* c = self <op> other, or c = other <op> self for the reflected operators;
\* powers are taken of the pairs built first
AdBinary(op, self, o) ==
    /\ may_apply(ad, self)
    /\ op = "pow" => ad.count = 0
    /\ applicable(op, contents(ad, self), o)
    /\ LET r == ad_apply(op, contents(ad, self), o)
           h == IF r.kind = "Ad_array" THEN store_result(ad, self, r) ELSE ad
       IN  ad' = [h EXCEPT !.last = Last(op, self, o, snapshot(ad), r.kind),
                           !.count = @ + 1]
    /\ UNCHANGED <<regVars, proj, coarse>>

\* dst = src.copy(), taken of the pairs built first
AdCopy(dst, src) ==
    /\ dst # src
    /\ ad.names[src] # 0
    /\ ad.count = 0
    /\ ad' = [copy(ad, dst, src) EXCEPT
                !.last = Last("copy", src, AdOperand(dst, NoPair), snapshot(ad), "Ad_array"),
                !.count = @ + 1]
    /\ UNCHANGED <<regVars, proj, coarse>>

\* after a copy: n.val = 2 or n.jac = 3 (test_copy_scalar)
AdAssign(n, attr) ==
    /\ ad.names[n] # 0
    /\ ad.last.op = "copy"
    /\ ad' = [(IF attr = "val" THEN set_val(ad, n, array(<<2>>))
               ELSE set_jac(ad, n, matrix(<<<<3>>>>))) EXCEPT
                !.last = Last("set_" \o attr, n, NoOperand, snapshot(ad), "None"),
                !.count = @ + 1]
    /\ UNCHANGED <<regVars, proj, coarse>>

\* after a copy: n.val[i] = 3 or n.jac[i] = 4, in place (test_copy_vector)
AdWrite(n, attr, i) ==
    /\ ad.names[n] # 0
    /\ ad.last.op = "copy"
    /\ i < Len(contents(ad, n).val)
    /\ ad' = [(IF attr = "val" THEN write_val(ad, n, i, q_int(3))
               ELSE write_jac(ad, n, i, q_int(4))) EXCEPT
                !.last = Last("write_" \o attr, n, NoOperand, snapshot(ad), "None"),
                !.count = @ + 1]
    /\ UNCHANGED <<regVars, proj, coarse>>

NextAd ==
    \/ \E n \in AdNames, p \in AdPairs \cup OtherPairs : AdCreate(n, p)
    \/ \E op \in BinaryOps, self \in AdNames, o \in AdConstants \cup Exponents :
            AdBinary(op, self, o)
    \/ \E op \in BinaryOps, self \in AdNames, m \in AdNames :
            /\ ad.names[m] # 0
            /\ AdBinary(op, self, AdOperand(m, contents(ad, m)))
    \/ \E dst \in AdNames, src \in AdNames : AdCopy(dst, src)
    \/ \E n \in AdNames, attr \in {"val", "jac"} : AdAssign(n, attr)
    \/ \E n \in AdNames, attr \in {"val", "jac"}, i \in 0..2 : AdWrite(n, attr, i)

SpecAd == InitAd /\ [][NextAd]_vars

----------------------------------------------------------------------------
(* Claims about the arithmetic of Ad_array, checked under SpecAd.          *)

\* the operands of the last operation as they were before it, and its result
ad_self == ad.last.pre[ad.last.self]
ad_other == ad.last.other
ad_result ==
    [kind |-> ad.last.ret, val |-> contents(ad, "c").val,
     jac |-> contents(ad, "c").jac]

\* the last operation was op on a pair and an operand of the given kind,
\* and it returned a pair
Applied(ops, kind) ==
    /\ ad.last.op \in ops
    /\ ad.last.other.kind = kind
    /\ ad.last.ret = "Ad_array"

\* the last operation is the one the test t makes
matches(t) ==
    /\ ad.last.op = t.op
    /\ ad_self = t.self
    /\ ad_other.kind = t.other.kind
    /\ ad_other.val = t.other.val
    /\ ad_other.mat = t.other.mat

\* the tests named in ns pass on the result of the operation they make
TestsPass(ns) ==
    \A t \in TestCases : (t.name \in ns /\ matches(t)) => passes(t, ad_result)

Rows(J) == 1..num_rows(J)
Cols(J) == 1..num_cols(J)

\* C11: for AD pairs a and b of one shape, a + b has value a.value + b.value
\* and Jacobian a.jacobian + b.jacobian, and a - b has value
\* a.value - b.value and Jacobian a.jacobian - b.jacobian, entry by entry;
\* test_add_two_ad_variables and test_sub_two_ad_variables get the values
\* they expect.
C11_AddSubtractOfPairs ==
    /\ (ad.last.op \in {"add", "sub"} /\ ad_other.kind = "Ad_array")
          => (ad.last.ret = "Ad_array" <=> same_shape(ad_self, cast(ad_other, ad_self)))
    /\ Applied({"add", "sub"}, "Ad_array") =>
          LET u == ad_self
              v == ad_other
              r == ad_result
              pm(x, y) == IF ad.last.op = "add" THEN q_add(x, y) ELSE q_sub(x, y)
          IN  /\ Len(r.val) = Len(u.val)
              /\ \A k \in 1..Len(u.val) : r.val[k] = pm(u.val[k], v.val[k])
              /\ num_rows(r.jac) = num_rows(u.jac)
              /\ num_cols(r.jac) = num_cols(u.jac)
              /\ \A i \in Rows(u.jac), j \in Cols(u.jac) :
                    r.jac[i][j] = pm(u.jac[i][j], v.mat[i][j])
    /\ TestsPass({"test_add_two_ad_variables", "test_sub_two_ad_variables",
                  "test_mul_advar_vectors"})

C11_Witness ==
    /\ matches(test_sub_two_ad_variables)
    /\ ad_result = Ad_array(array(<<-5>>), matrix(<<<<-2>>>>))

\* C12: for AD pairs a and b of one shape, a * b has value a.value * b.value
\* and Jacobian diag(b.value) * a.jacobian + diag(a.value) * b.jacobian; for
\* a plain scalar c, a * c and c * a have value c * a.value and Jacobian
\* c * a.jacobian; the tests of these products get the values they expect.
C12_ProductRule ==
    /\ Applied({"mul"}, "Ad_array") =>
          LET u == ad_self
              v == ad_other
              r == ad_result
          IN  /\ Len(r.val) = Len(u.val)
              /\ \A k \in 1..Len(u.val) : r.val[k] = q_mul(u.val[k], v.val[k])
              /\ num_rows(r.jac) = num_rows(u.jac)
              /\ num_cols(r.jac) = num_cols(u.jac)
              /\ \A i \in Rows(u.jac), j \in Cols(u.jac) :
                    r.jac[i][j] = q_add(q_mul(v.val[i], u.jac[i][j]),
                                        q_mul(u.val[i], v.mat[i][j]))
    /\ ((ad.last.op \in {"mul", "rmul"} /\ ad_other.kind = "scalar")
          => ad.last.ret = "Ad_array")
    /\ Applied({"mul", "rmul"}, "scalar") =>
          LET u == ad_self
              c == ad_other.val[1]
              r == ad_result
          IN  /\ Len(r.val) = Len(u.val)
              /\ \A k \in 1..Len(u.val) : r.val[k] = q_mul(c, u.val[k])
              /\ num_rows(r.jac) = num_rows(u.jac)
              /\ num_cols(r.jac) = num_cols(u.jac)
              /\ \A i \in Rows(u.jac), j \in Cols(u.jac) :
                    r.jac[i][j] = q_mul(c, u.jac[i][j])
    /\ TestsPass({"test_mul_ad_var_ad_scal", "test_mul_ad_var_ad_var",
                  "test_mul_ad_var_scal", "test_mul_scar_ad_var"})

C12_Witness ==
    /\ matches(test_mul_ad_var_ad_var)
    /\ ad_result = Ad_array(array(<<6>>), matrix(<<<<-6>>>>))

\* C13: for AD pairs a and b of one shape with every entry of b.value
\* nonzero, a / b is a pair with value a.value / b.value and Jacobian
\* (b.value * a.jacobian - a.value * b.jacobian) / b.value^2, row by row;
\* test_div_advar_advar gets (2, 1).
C13_QuotientRule ==
    /\ (/\ ad.last.op = "truediv"
        /\ ad_other.kind = "Ad_array"
        /\ \A k \in 1..Len(ad_other.val) : ad_other.val[k] # q_int(0)
        /\ same_shape(ad_self, cast(ad_other, ad_self)))
          => ad.last.ret = "Ad_array"
    /\ Applied({"truediv"}, "Ad_array") =>
          LET u == ad_self
              v == ad_other
              r == ad_result
          IN  /\ Len(r.val) = Len(u.val)
              /\ \A k \in 1..Len(u.val) : r.val[k] = q_div(u.val[k], v.val[k])
              /\ num_rows(r.jac) = num_rows(u.jac)
              /\ num_cols(r.jac) = num_cols(u.jac)
              /\ \A i \in Rows(u.jac), j \in Cols(u.jac) :
                    r.jac[i][j] =
                        q_div(q_sub(q_mul(v.val[i], u.jac[i][j]),
                                    q_mul(u.val[i], v.mat[i][j])),
                              q_mul(v.val[i], v.val[i]))
    /\ TestsPass({"test_div_advar_advar"})

C13_Witness ==
    /\ matches(test_div_advar_advar)
    /\ ad_result = Ad_array(array(<<2>>), matrix(<<<<1>>>>))

\* C14: dividing an AD pair by an AD pair with a zero entry in its value
\* fails with a domain error; no result pair is bound (c is what it was) and
\* every pair holds the value and the Jacobian it held before.
C14_DivisionByZeroEntryFails ==
    (/\ ad.last.op = "truediv"
     /\ ad_other.kind = "Ad_array"
     /\ \E k \in 1..Len(ad_other.val) : ad_other.val[k] = q_int(0))
        => /\ ad.last.ret = "DomainError"
           /\ snapshot(ad) = ad.last.pre

C14_Witness ==
    /\ ad.last.op = "truediv"
    /\ ad_other.kind = "Ad_array"
    /\ ad_other.val = array(<<2, 0, -1>>)
    /\ ad_self = x_diag
    /\ ad.last.ret = "DomainError"

\* C15: for an AD pair u and a constant integer exponent c, u ** c has value
\* u.value ** c and Jacobian c * u.value ** (c - 1) * u.jacobian, row by
\* row; for c >= 2 it is the product of u ** (c - 1) and u;
\* test_power_advar_scalar gets (4, 12).
C15_PowerRule ==
    /\ Applied({"pow"}, "scalar") =>
          LET u == ad_self
              c == ad_other.val[1][1]
              r == ad_result
          IN  /\ Len(r.val) = Len(u.val)
              /\ \A k \in 1..Len(u.val) : r.val[k] = q_pow(u.val[k], c)
              /\ num_rows(r.jac) = num_rows(u.jac)
              /\ num_cols(r.jac) = num_cols(u.jac)
              /\ \A i \in Rows(u.jac), j \in Cols(u.jac) :
                    r.jac[i][j] =
                        q_mul(q_mul(q_int(c), q_pow(u.val[i], c - 1)), u.jac[i][j])
              /\ c >= 2 => r = mul(pow(u, c - 1), AdOperand("none", u))
    /\ TestsPass({"test_power_advar_scalar"})

C15_Witness ==
    /\ matches(test_power_advar_scalar)
    /\ ad_result = Ad_array(array(<<4>>), matrix(<<<<12>>>>))

\* C16 as stated: for an AD pair u and a constant matrix A, A * u has value
\* A * u.value, u * A has value u.value * A, and in both orders the Jacobian
\* is A * u.jacobian (wherever that product is defined).
C16_JacobianIsAuInBothOrders ==
    Applied({"mul", "rmul"}, "spmatrix") =>
        LET u == ad_self
            A == ad_other.mat
            r == ad_result
        IN  /\ r.val = (IF ad.last.op = "rmul" THEN m_matvec(A, u.val)
                        ELSE m_vecmat(u.val, A))
            /\ num_cols(A) = num_rows(u.jac) => r.jac = m_matmul(A, u.jac)

\* C16, amended: A * u has value A * u.value and Jacobian A * u.jacobian;
\* u * A has value u.value * A and Jacobian u.jacobian * A, entry by entry;
\* test_mul_sps_advar, test_mul_ad_var_mat and the first product of
\* test_advar_m_mul_vec_n get the values they expect.
C16_MatrixProductByOrder ==
    /\ Applied({"rmul"}, "spmatrix") =>
          LET u == ad_self
              A == ad_other.mat
              r == ad_result
          IN  /\ Len(r.val) = num_rows(A)
              /\ \A i \in Rows(A) :
                    r.val[i] = q_sum([k \in 1..Len(u.val) |-> q_mul(A[i][k], u.val[k])])
              /\ num_rows(r.jac) = num_rows(A)
              /\ num_cols(r.jac) = num_cols(u.jac)
              /\ \A i \in Rows(A), j \in Cols(u.jac) :
                    r.jac[i][j] =
                        q_sum([k \in Rows(u.jac) |-> q_mul(A[i][k], u.jac[k][j])])
    /\ Applied({"mul"}, "spmatrix") =>
          LET u == ad_self
              A == ad_other.mat
              r == ad_result
          IN  /\ Len(r.val) = num_cols(A)
              /\ \A j \in Cols(A) :
                    r.val[j] = q_sum([k \in 1..Len(u.val) |-> q_mul(u.val[k], A[k][j])])
              /\ num_rows(r.jac) = num_rows(u.jac)
              /\ num_cols(r.jac) = num_cols(A)
              /\ \A i \in Rows(u.jac), j \in Cols(A) :
                    r.jac[i][j] =
                        q_sum([k \in Cols(u.jac) |-> q_mul(u.jac[i][k], A[k][j])])
    /\ TestsPass({"test_mul_sps_advar", "test_mul_ad_var_mat",
                  "test_advar_m_mul_vec_n"})

C16_Witness ==
    /\ matches(test_mul_ad_var_mat)
    /\ ad_result.val = array(<<30, 36, 42>>)
    /\ ad_result.jac = matrix(<<<<3, 6, 9>>, <<8, 10, 12>>, <<7, 8, 9>>>>)

\* C17: for an AD pair a and a plain scalar c, c + a equals a + c: value
\* a.value + c, Jacobian a.jacobian; c - a has value c - a.value and
\* Jacobian -a.jacobian; test_add_scal_with_var and test_sub_scal_with_var
\* get the values they expect.
C17_ReflectedAddSubtract ==
    /\ ((ad.last.op \in {"radd", "rsub"} /\ ad_other.kind = "scalar")
          => ad.last.ret = "Ad_array")
    /\ Applied({"radd"}, "scalar") =>
          LET u == ad_self
              c == ad_other.val[1]
              r == ad_result
          IN  /\ r = add(u, ad_other)
              /\ Len(r.val) = Len(u.val)
              /\ \A k \in 1..Len(u.val) : r.val[k] = q_add(u.val[k], c)
              /\ r.jac = u.jac
    /\ Applied({"rsub"}, "scalar") =>
          LET u == ad_self
              c == ad_other.val[1]
              r == ad_result
          IN  /\ Len(r.val) = Len(u.val)
              /\ \A k \in 1..Len(u.val) : r.val[k] = q_sub(c, u.val[k])
              /\ num_rows(r.jac) = num_rows(u.jac)
              /\ num_cols(r.jac) = num_cols(u.jac)
              /\ \A i \in Rows(u.jac), j \in Cols(u.jac) :
                    r.jac[i][j] = q_neg(u.jac[i][j])
    /\ TestsPass({"test_add_scal_with_var", "test_sub_scal_with_var",
                  "test_add_var_with_scal", "test_sub_var_with_scal"})

C17_Witness ==
    /\ matches(test_sub_scal_with_var)
    /\ ad_result = Ad_array(array(<<0>>), matrix(<<<<-2>>>>))

\* what test_copy_scalar and test_copy_vector expect b to hold after
\* b = a.copy() and the writes to a
test_copy_scalar == [a |-> S(1, 0), b |-> S(1, 0)]

test_copy_vector_aliased ==
    [a |-> ones_31, b |-> Pair(array(<<3, 1, 1>>), matrix(<<<<1>>, <<1>>, <<1>>>>))]

test_copy_vector == [a |-> ones_31, b |-> ones_31]

Mutations == {"set_val", "set_jac", "write_val", "write_jac"}

\* b = a.copy() was made of the pair a of the test t, and a was written to
copied_and_written(t, op) ==
    /\ ad.last.op = op
    /\ ad.last.self = "a"
    /\ ad.last.pre["a"] = t.a
    /\ ad.last.pre["b"] = t.a
    /\ ad.names["a"] # ad.names["b"]

\* C18: after dst = src.copy() the copy holds the value and the Jacobian of
\* the source; a later write to the value or the Jacobian of either, by
\* reassignment or in place, leaves what every other name holds unchanged;
\* after a.val = 2 (test_copy_scalar) and after a.val[0] = 3
\* (test_copy_vector) b holds what the tests expect.
C18_CopyIsIndependent ==
    /\ ad.last.op = "copy" =>
          /\ contents(ad, ad.last.other.name) = ad.last.pre[ad.last.self]
          /\ contents(ad, ad.last.self) = ad.last.pre[ad.last.self]
    /\ ad.last.op \in Mutations =>
          \A n \in AdNames \ {ad.last.self} : contents(ad, n) = ad.last.pre[n]
    /\ copied_and_written(test_copy_scalar, "set_val")
          => contents(ad, "b") = test_copy_scalar.b
    /\ copied_and_written(test_copy_vector, "write_val")
          => contents(ad, "b") = test_copy_vector.b

C18_Witness ==
    /\ copied_and_written(test_copy_vector, "write_val")
    /\ contents(ad, "a").val = array(<<3, 1, 1>>)
    /\ contents(ad, "b") = ones_31

\* C19: an arithmetic operation on AD pairs (+, -, *, /, ** with a pair, a
\* scalar, a vector or a matrix as other operand, the reflected forms
\* included) leaves what every operand holds unchanged, and a result is a
\* new object that shares no buffer with another pair; after f = A * a + b
\* (test_mul_advar_vectors) the Jacobians of a and b are the ones given.
C19_ArithmeticIsPure ==
    /\ ad.last.op \in BinaryOps =>
          /\ \A n \in AdNames \ {"c"} : contents(ad, n) = ad.last.pre[n]
          /\ ad.last.ret # "Ad_array" => snapshot(ad) = ad.last.pre
          /\ ad.last.ret = "Ad_array" =>
                \A n \in AdNames \ {"c"} :
                    ad.names[n] # 0 =>
                        /\ ad.names[n] # ad.names["c"]
                        /\ ad.objs[ad.names[n]].v # ad.objs[ad.names["c"]].v
                        /\ ad.objs[ad.names[n]].j # ad.objs[ad.names["c"]].j
    /\ matches(test_mul_advar_vectors) =>
          /\ ad.last.pre["a"] = a_vec => contents(ad, "a").jac = J_mat
          /\ contents(ad, "b").jac = diags(<<1, 1, 1>>)

C19_Witness ==
    /\ matches(test_mul_advar_vectors)
    /\ contents(ad, "a") = a_vec
    /\ contents(ad, "b") = b_vec
    /\ ad_result.val = array(<<15, 33, 51>>)

\* C20 as stated: every AD pair produced by arithmetic has a Jacobian with as
\* many rows as its value has entries; multiplying a pair of length 3 by a
\* 2x3 matrix and then elementwise by a vector of length 2 gives pairs with
\* 2-row Jacobians, the second with row i scaled by entry i of the vector.
C20_JacobianRowsMatchValue ==
    /\ (ad.last.op \in BinaryOps /\ ad.last.ret = "Ad_array")
          => num_rows(ad_result.jac) = Len(ad_result.val)
    /\ matches(test_advar_m_mul_vec_n_y) => num_rows(ad_result.jac) = 2
    /\ matches(test_advar_m_mul_vec_n_z) =>
          /\ num_rows(ad_result.jac) = 2
          /\ \A i \in 1..2, j \in Cols(ad_self.jac) :
                ad_result.jac[i][j] = q_mul(ad_other.val[i], ad_self.jac[i][j])

----------------------------------------------------------------------------
(* Properties of the mortar projections.                                   *)

\* C21: for MortarProjections over ordered lists of subdomains and
\* interfaces, mortar_to_primary_avg equals mortar_to_primary_int, which is
\* the 0/1 matrix with one column per mortar cell (times nd), the interfaces
\* in the order of the list, whose single 1 is in the row of the matching
\* face of the primary grid, offset by the face start of that grid
\* (proj_known_higher of the tests); primary_to_mortar_int and
\* primary_to_mortar_avg both equal its transpose.
C21_MortarToPrimaryIsKnownSelection ==
    proj.op \in MortarNames
    => LET sds == proj.subdomains
           is == proj.interfaces
           nd == proj.nd
           K == proj_known_higher(sds, is, nd)
           NF == nd * total_count(sds, "face")
           NMC == nd * total_count(is, "cell")
       IN /\ proj.op \in {"mortar_to_primary_int", "mortar_to_primary_avg"}
                => proj.mat = K
          /\ proj.op \in {"primary_to_mortar_int", "primary_to_mortar_avg"}
                => proj.mat = transpose(K)
          /\ mortar_projection(sds, is, nd, "mortar_to_primary_avg")
                = mortar_projection(sds, is, nd, "mortar_to_primary_int")
          /\ mortar_projection(sds, is, nd, "primary_to_mortar_avg")
                = mortar_projection(sds, is, nd, "primary_to_mortar_int")
          /\ K.shape = <<NF, NMC>>
          /\ Cardinality(K.nz) = NMC
          /\ \A k \in 1..Len(is) : \A c \in 0..(num_cells(is[k]) - 1), d \in 0..(nd - 1) :
                LET col == nd * total_count(SubSeq(is, 1, k - 1), "cell") + nd * c + d
                    row == nd * offset_of(sds, primary_of(is[k]), "face")
                               + nd * primary_faces(is[k])[c + 1] + d
                IN \A i \in 0..(NF - 1) :
                      At(K, i, col) = IF i = row THEN 1 ELSE 0

C21_Witness ==
    /\ proj.op = "mortar_to_primary_avg"
    /\ proj.subdomains = <<"g1", "g0">>
    /\ proj.interfaces = <<"intf2", "intf">>
    /\ proj.nd = 2
    /\ proj.mat.shape = <<12, 12>>
    /\ At(proj.mat, 4 + 2 * 1, 0) = 1
    /\ At(proj.mat, 2 * 1 + 1, 8 + 1) = 1
    /\ At(proj.mat, 0, 8 + 2) = 1

----------------------------------------------------------------------------
(* Properties of the parsing of discretization matrices.                   *)

\* rows r0.. and columns c0.. of M as a matrix of their own
block(M, r0, c0, nrow, ncol) ==
    coo_matrix({<<t[1] - r0, t[2] - c0, t[3]>> :
                   t \in {u \in M.nz : /\ u[1] >= r0 /\ u[1] < r0 + nrow
                                       /\ u[2] >= c0 /\ u[2] < c0 + ncol}},
               nrow, ncol)

\* C22: parsing a discretization-matrix reference that spans an ordered
\* list of grids returns a block-diagonal matrix whose i-th diagonal block
\* is the matrix stored under the discretization's keyword and matrix name
\* in the store of the i-th grid, and nothing outside the blocks; a
\* discretization with another keyword on a sub-list of the grids yields
\* the blocks of those grids only, in the order of the sub-list (its
\* diagonal is known_val / known_sub_val of the tests).
C22_ParseIsBlockDiagonalOfStored ==
    proj.op = "parse"
    => LET gs == proj.subdomains
           key == proj.arg[1]
           name == proj.arg[2]
           n == total_count(gs, "cell")
       IN /\ proj.mat.shape = <<n, n>>
          /\ diagonal(proj.mat) = known_val(gs, key, name)
          /\ \A i \in 1..Len(gs) :
                LET start == total_count(SubSeq(gs, 1, i - 1), "cell")
                IN block(proj.mat, start, start, num_cells(gs[i]), num_cells(gs[i]))
                       = stored_matrix(gs[i], key, name)
          /\ \A t \in proj.mat.nz :
                \E i \in 1..Len(gs) :
                    LET start == total_count(SubSeq(gs, 1, i - 1), "cell")
                    IN /\ t[1] >= start /\ t[1] < start + num_cells(gs[i])
                       /\ t[2] >= start /\ t[2] < start + num_cells(gs[i])

C22_Witness ==
    /\ proj.op = "parse"
    /\ proj.subdomains = <<"g1", "g0">>
    /\ proj.arg = <<"bar", "foobar">>
    /\ proj.mat.shape = <<3, 3>>
    /\ At(proj.mat, 0, 0) = At(stored_matrix("g1", "bar", "foobar"), 0, 0)
    /\ At(proj.mat, 2, 1) = At(stored_matrix("g0", "bar", "foobar"), 1, 0)
    /\ At(proj.mat, 0, 1) = 0
    /\ At(stored_matrix("g0", "bar", "foobar"), 1, 0)
           # At(stored_matrix("g0", "foo", "foobar"), 1, 0)

----------------------------------------------------------------------------
(* Evaluation as a pure function of the tree, the state vector, the        *)
(* registry and the stores.                                                *)

\* an evaluation step: registry, stored arrays and tree are as before, the
\* result is a function of them and of the state vector, and a state vector
\* evaluated twice in a row gives the same result twice
C23_Step ==
    call'.op = "evaluate"
    => /\ blocks' = blocks
       /\ iterate_stored' = iterate_stored
       /\ tree' = tree
       /\ call'.ret = evaluate(blocks, iterate_stored, tree,
                               state_vector(blocks, call'.x))
       /\ (call.op = "evaluate" /\ call.x = call'.x) => call'.ret = call.ret

\* C23: evaluating an operator tree changes neither the DOF registry, nor
\* the stored iterate / state arrays, nor the tree; so evaluating the same
\* tree any number of times, interleaved with evaluations on other state
\* vectors, returns the same result for the same state vector.
C23_EvaluationIsPure == [][C23_Step]_vars

C23_Witness ==
    /\ call.op = "evaluate"
    /\ call.x = "double_iterate"
    /\ call.ret.kind = "Ad_array"
    /\ tree.kind = "MergedVariable" /\ ~tree.stale
    /\ Len(blocks) >= 2
    /\ call.ret.val = take(double_iterate(blocks), inds_var(blocks, tree.sub_vars))
    /\ call.ret.val # take(true_state(blocks), inds_var(blocks, tree.sub_vars))

----------------------------------------------------------------------------
(* Coarsening of a grid by a partition of its cells (generateCoarseGrid).  *)
(* Index arrays count from 0 as in the code; a sparse matrix is the set of *)
(* its stored entries <<row, column, value>> with its shape.               *)

\* Grid(dim, nodes, face_nodes, cell_faces, name): nodes holds one
\* coordinate column per node, face_nodes has a row per node and a column
\* per face, cell_faces a row per face and a column per cell
Grid(dim, nodes, face_nodes, cell_faces, name) ==
    [kind |-> "Grid", dim |-> dim, nodes |-> nodes, face_nodes |-> face_nodes,
     cell_faces |-> cell_faces, name |-> name]

\* a line of three cells: face i is node i, cell c lies between faces c, c + 1
line_grid ==
    Grid(1, [n \in 1..4 |-> <<n - 1, 0>>],
         coo_matrix({<<f, f, 1>> : f \in 0..3}, 4, 4),
         coo_matrix({<<c, c, -1>> : c \in 0..2} \cup {<<c + 1, c, 1>> : c \in 0..2},
                    4, 3),
         "line")

\* a Cartesian grid of 2 x 2 cells: 9 nodes, the 6 faces across x first,
\* then the 6 faces across y; a cell has -1 on its west and south face and
\* +1 on its east and north face
cart_grid ==
    Grid(2, [n \in 1..9 |-> <<(n - 1) % 3, (n - 1) \div 3>>],
         coo_matrix(UNION {{<<i + 3 * j, i + 3 * j, 1>>,
                            <<i + 3 * (j + 1), i + 3 * j, 1>>} :
                              i \in 0..2, j \in 0..1}
                    \cup UNION {{<<i + 3 * j, 6 + i + 2 * j, 1>>,
                                 <<i + 1 + 3 * j, 6 + i + 2 * j, 1>>} :
                                   i \in 0..1, j \in 0..2},
                    9, 12),
         coo_matrix(UNION {{<<i + 3 * j, i + 2 * j, -1>>,
                            <<i + 1 + 3 * j, i + 2 * j, 1>>,
                            <<6 + i + 2 * j, i + 2 * j, -1>>,
                            <<6 + i + 2 * (j + 1), i + 2 * j, 1>>} :
                              i \in 0..1, j \in 0..1},
                    12, 4),
         "cart")

FineGrids == {"line", "cart"}

fine_grid(name) == IF name = "line" THEN line_grid ELSE cart_grid

RECURSIVE sorted(_)
\* the members of a set of numbers in ascending order
sorted(xs) ==
    IF xs = {} THEN <<>>
    ELSE LET m == CHOOSE a \in xs : \A b \in xs : a <= b
         IN <<m>> \o sorted(xs \ {m})

\* np.unique(x)
unique(x) == sorted({x[k] : k \in 1..Len(x)})

\* np.where(x == v)[0]
where(x, v) == sorted({k - 1 : k \in {q \in 1..Len(x) : x[q] = v}})

\* x[mask] for a boolean mask, given as the set of the indices that are True
masked(x, mask) == take(x, sorted(mask))

\* np.delete(x, index)
delete(x, index) ==
    masked(x, (0..(Len(x) - 1)) \ {index[k] : k \in 1..Len(index)})

\* sps.find(A[:, cols]): <<row, column, value>> of the nonzeros of the
\* listed columns, column after column and row after row in a column
find(A, cols) ==
    hstack([p \in 1..Len(cols) |->
               LET rows == sorted({t[1] : t \in {u \in A.nz : u[2] = cols[p] /\ u[3] # 0}})
               IN [k \in 1..Len(rows) |-> <<rows[k], p - 1, At(A, rows[k], cols[p])>>]])

\* A.indices of a matrix in CSC form: the rows of the stored entries, column
\* after column
indices(A) ==
    hstack([c \in 1..A.shape[2] |-> sorted({t[1] : t \in {u \in A.nz : u[2] = c - 1}})])

\* A.indptr of a matrix in CSC form
indptr(A) ==
    [k \in 1..(A.shape[2] + 1) |-> Cardinality({t \in A.nz : t[2] < k - 1})]

\* matrix_compression.rldecode(A, n): A[k] repeated n[k] times
rldecode(A, n) == hstack([k \in 1..Len(A) |-> [q \in 1..n[k] |-> A[k]]])

\* face_node_ind: the face of every stored entry of g.face_nodes
face_node_ind(g) ==
    LET ptr == indptr(g.face_nodes)
        num_nodes_per_face == [k \in 1..(Len(ptr) - 1) |-> ptr[k + 1] - ptr[k]]
    IN rldecode(arange(0, g.cell_faces.shape[1]), num_nodes_per_face)

\* the mask that is True at the first occurrence of every value of x
first_occurrence(x) ==
    {k - 1 : k \in {q \in 1..Len(x) : \A p \in 1..(q - 1) : x[p] # x[q]}}

\* index with the repeated occurrences only
index_of_repeats(faces_old) ==
    sorted((0..(Len(faces_old) - 1)) \ first_occurrence(faces_old))

\* index: every position of the faces that occur more than once in faces_old
index(faces_old) ==
    LET mask == first_occurrence(faces_old)
        repeated == masked(faces_old, (0..(Len(faces_old) - 1)) \ mask)
    IN hstack([k \in 1..Len(repeated) |-> where(faces_old, repeated[k])])

\* one turn of the loop over cells_list: the faces, cells, orientations,
\* and the (face, node) entries of the coarse cell cellId are appended
coarse_cell(g, subdiv, cellId, cell, acc) ==
    LET cells_old == where(subdiv, cell)
        found == find(g.cell_faces, cells_old)
        faces_old == [k \in 1..Len(found) |-> found[k][1]]
        orient_old == [k \in 1..Len(found) |-> found[k][3]]
        faces_new == delete(faces_old, index(faces_old))
        fni == face_node_ind(g)
        mask == {k - 1 : k \in {q \in 1..Len(fni) :
                                  \E p \in 1..Len(faces_new) : fni[q] = faces_new[p]}}
    IN [cell_faces |-> acc.cell_faces \o faces_new,
        cells |-> acc.cells \o [k \in 1..Len(faces_new) |-> cellId],
        orient |-> acc.orient \o delete(orient_old, index(faces_old)),
        face_nodes |-> acc.face_nodes \o masked(fni, mask),
        nodes |-> acc.nodes \o masked(indices(g.face_nodes), mask)]

RECURSIVE coarse_cells(_, _, _, _)
\* for cellId, cell in enumerate(cells_list), up to cellId = n - 1
coarse_cells(g, subdiv, cells_list, n) ==
    IF n = 0
    THEN [cell_faces |-> <<>>, cells |-> <<>>, orient |-> <<>>,
          face_nodes |-> <<>>, nodes |-> <<>>]
    ELSE coarse_cell(g, subdiv, n - 1, cells_list[n],
                     coarse_cells(g, subdiv, cells_list, n - 1))

\* the entities keep their number in the fine grid
rename_not(x, uniq) == x

\* [ id[ np.where( uniq == f )[0] ] for f in x ]: the place of every entry of
\* x in the ascending list uniq
rename(x, uniq) == [k \in 1..Len(x) |-> where(uniq, x[k])[1]]

RECURSIVE sum_where(_, _, _, _)
\* the sum of data[k] over the k with <<row[k], col[k]>> = ij
sum_where(data, row, col, ij) ==
    IF data = <<>> THEN 0
    ELSE LET n == Len(data)
             rest == sum_where(SubSeq(data, 1, n - 1), SubSeq(row, 1, n - 1),
                               SubSeq(col, 1, n - 1), ij)
         IN IF <<row[n], col[n]>> = ij THEN rest + data[n] ELSE rest

\* sps.csc_matrix((data, (row, col)), shape): entries given more than once
\* are added up, booleans by "or"
csc_matrix(data, row, col, shape, bool) ==
    coo_matrix({<<ij[1], ij[2],
                  IF bool THEN 1 ELSE sum_where(data, row, col, ij)>> :
                   ij \in {<<row[k], col[k]>> : k \in 1..Len(data)}},
               shape[1], shape[2])

AssertionError == [kind |-> "AssertionError"]

\* generateCoarseGrid(g, subdiv)
generateCoarseGrid(g, subdiv) ==
    IF Len(subdiv) # g.cell_faces.shape[2] THEN AssertionError
    ELSE LET cells_list == unique(subdiv)
             acc == coarse_cells(g, subdiv, cells_list, Len(cells_list))
             cell_faces_unique == unique(acc.cell_faces)
             nodes_list == unique(acc.nodes)
         IN Grid(g.dim, take(g.nodes, nodes_list),
                 csc_matrix(ones(Len(acc.nodes)),
                            rename(acc.nodes, nodes_list),
                            rename(acc.face_nodes, cell_faces_unique),
                            <<Len(nodes_list), Len(cell_faces_unique)>>, TRUE),
                 csc_matrix(acc.orient,
                            rename(acc.cell_faces, cell_faces_unique), acc.cells,
                            <<Len(cell_faces_unique), Len(cells_list)>>, FALSE),
                 g.name \o "_coarse")

\* largest partition value of a cell
MaxPart == 2

\* the partition vectors given: one value per cell of some fine grid
Subdivs ==
    UNION {[1..fine_grid(n).cell_faces.shape[2] -> 0..MaxPart] : n \in FineGrids}

\* a fine grid and a partition vector are given
InitCoarse ==
    /\ blocks = <<>>
    /\ iterate_stored = FALSE
    /\ tree = NoTree
    /\ call = NoCall
    /\ proj = NoProj
    /\ ad = NoAd
    /\ coarse \in {[op |-> "given", g |-> name, subdiv |-> subdiv, ret |-> "None"] :
                      name \in FineGrids, subdiv \in Subdivs}

\* generateCoarseGrid(g, subdiv) is called with what was given
GenerateCoarseGrid ==
    /\ coarse.op = "given"
    /\ coarse' = [coarse EXCEPT !.op = "generateCoarseGrid",
                                !.ret = generateCoarseGrid(fine_grid(coarse.g),
                                                           coarse.subdiv)]
    /\ UNCHANGED <<regVars, proj, ad>>

NextCoarse == GenerateCoarseGrid

SpecCoarse == InitCoarse /\ [][NextCoarse]_vars

----------------------------------------------------------------------------
(* Properties of generateCoarseGrid.                                       *)

\* the partition values of a partition vector
part_values(subdiv) == {subdiv[k] : k \in 1..Len(subdiv)}

\* the fine cells of partition v that have f as a face
cells_with(g, subdiv, f, v) ==
    {c \in 0..(g.cell_faces.shape[2] - 1) :
        subdiv[c + 1] = v /\ At(g.cell_faces, f, c) # 0}

\* the fine faces that are a face of exactly one cell of some partition
retained_faces(g, subdiv) ==
    {f \in 0..(g.cell_faces.shape[1] - 1) :
        \E v \in part_values(subdiv) : Cardinality(cells_with(g, subdiv, f, v)) = 1}

\* the fine nodes of the retained faces
retained_nodes(g, subdiv) ==
    {t[1] : t \in {u \in g.face_nodes.nz : u[2] \in retained_faces(g, subdiv)}}

\* the number of x when the members of xs are counted from 0 in ascending order
number_in(xs, x) == Cardinality({y \in xs : y < x})

\* C24: generateCoarseGrid(g, subdiv) requires len(subdiv) == g.num_cells
\* and returns a grid with one coarse cell per distinct value of subdiv,
\* numbered by ascending partition value, where a fine face f belongs to
\* coarse cell k, with its original orientation sign, exactly when f is a
\* face of exactly one fine cell of partition k; a face shared by two fine
\* cells of the same partition is removed from that coarse cell.
C24_CoarseCellsKeepOuterFaces ==
    coarse.op = "generateCoarseGrid"
    => LET g == fine_grid(coarse.g)
           subdiv == coarse.subdiv
           r == coarse.ret
           values == part_values(subdiv)
           faces == retained_faces(g, subdiv)
       IN /\ (r.kind = "AssertionError") <=> (Len(subdiv) # g.cell_faces.shape[2])
          /\ r.kind = "Grid"
                => /\ r.cell_faces.shape[2] = Cardinality(values)
                   /\ \A v \in values, f \in faces :
                         LET cs == cells_with(g, subdiv, f, v)
                             here == At(r.cell_faces, number_in(faces, f),
                                        number_in(values, v))
                         IN IF Cardinality(cs) = 1
                            THEN /\ here = At(g.cell_faces, f, CHOOSE c \in cs : TRUE)
                                 /\ here \in {-1, 1}
                            ELSE here = 0
                   /\ \A t \in r.cell_faces.nz :
                         /\ t[3] # 0
                         /\ t[1] \in 0..(Cardinality(faces) - 1)
                         /\ t[2] \in 0..(Cardinality(values) - 1)

C24_Witness ==
    /\ coarse.op = "generateCoarseGrid"
    /\ coarse.g = "cart"
    /\ coarse.subdiv = <<0, 0, 2, 2>>
    /\ coarse.ret.kind = "Grid"
    /\ coarse.ret.cell_faces.shape = <<10, 2>>
    /\ At(coarse.ret.cell_faces, 6, 0) = 1
    /\ At(coarse.ret.cell_faces, 6, 1) = -1
    /\ Cardinality(coarse.ret.cell_faces.nz) = 12

\* C25: in the grid returned by generateCoarseGrid, retained faces and
\* retained nodes are renumbered densely 0..n-1 in ascending order of their
\* fine-grid index; cell_faces has shape (number of retained faces, number
\* of partitions), face_nodes has shape (number of retained nodes, number of
\* retained faces), every retained face keeps exactly the nodes of its fine
\* face, and fine nodes belonging to no retained face are dropped.
C25_FacesAndNodesRenumberedDensely ==
    (coarse.op = "generateCoarseGrid" /\ coarse.ret.kind = "Grid")
    => LET g == fine_grid(coarse.g)
           subdiv == coarse.subdiv
           r == coarse.ret
           faces == retained_faces(g, subdiv)
           nodes == retained_nodes(g, subdiv)
       IN /\ r.cell_faces.shape
                = <<Cardinality(faces), Cardinality(part_values(subdiv))>>
          /\ r.face_nodes.shape = <<Cardinality(nodes), Cardinality(faces)>>
          /\ {t[1] : t \in r.cell_faces.nz} = 0..(Cardinality(faces) - 1)
          /\ {t[2] : t \in r.face_nodes.nz} = 0..(Cardinality(faces) - 1)
          /\ {t[1] : t \in r.face_nodes.nz} = 0..(Cardinality(nodes) - 1)
          /\ r.face_nodes.nz
                = {<<number_in(nodes, t[1]), number_in(faces, t[2]), 1>> :
                      t \in {u \in g.face_nodes.nz : u[2] \in faces}}
          /\ Len(r.nodes) = Cardinality(nodes)
          /\ \A n \in nodes : r.nodes[number_in(nodes, n) + 1] = g.nodes[n + 1]
          /\ r.dim = g.dim

C25_Witness ==
    /\ coarse.op = "generateCoarseGrid"
    /\ coarse.g = "cart"
    /\ coarse.subdiv = <<1, 1, 1, 1>>
    /\ coarse.ret.kind = "Grid"
    /\ coarse.ret.cell_faces.shape = <<8, 1>>
    /\ coarse.ret.face_nodes.shape = <<8, 8>>
    /\ coarse.ret.nodes[5] = <<2, 1>>
    /\ At(coarse.ret.face_nodes, 4, 3) = 1

====
